---- MODULE Spec2Model ----
(***************************************************************************)
(* Model of the hallucination guard of HybridRAG3: claim extraction, NLI   *)
(* verification, faithfulness scoring, the safety decision and the         *)
(* construction of the safe response (src/core/hallucination_guard), and   *)
(* the grounded query engine that wraps them.                              *)
(*                                                                         *)
(* Text is a sequence of tokens.  Two neighbouring tokens are separated by *)
(* one blank in the Python string, so an empty token "" in the middle of a *)
(* sequence stands for a doubled blank (what removing a citation marker    *)
(* from the middle of a sentence leaves behind).  Probabilities and scores *)
(* are rationals [n, d] compared by cross-multiplication.                  *)
(***************************************************************************)
EXTENDS Integers, Sequences, FiniteSets, TLC

VARIABLES
    \* ---- HallucinationGuard / NLIVerifier (one verify() call)
    pc,             \* position in verify()
    config,         \* GuardConfig of the guard instance
    model_loaded,   \* NLIVerifier._model_loaded
    env,            \* what load_model() finds: "unknown" until first asked
    nli_memo,       \* the model's answers so far, per claim text
    predict_calls,  \* number of model.predict calls of this verify()
    llm_response,   \* verify() argument
    source_chunks,  \* verify() argument
    claims,         \* extract_claims() output, capped
    claim_results,  \* list of ClaimResult
    faith_score,    \* faithfulness score
    result,         \* the GuardResult returned
    \* ---- verify_claim_against_chunks as a pure function
    r_pc, r_rows, r_result,
    \* ---- verify_batch_with_earlyexit
    b_pc, b_nli, b_i, all_results, consecutive_pass, consecutive_fail, b_exit,
    b_verified,     \* the claims the model was invoked for, in order
    \* ---- GroundedQueryEngine
    e_pc, engine, e_hits, e_llm, e_result,
    \* ---- the audit log file and the outcome of the last write to it
    audit_log, audit_outcome,
    \* ---- concurrent callers of verify() writing the audit log
    a_pc, a_call, a_pos, a_append,
    \* ---- concurrent first use: get_guard() and load_model()
    l_pc, l_mode, guard_instance, l_guard, l_loaded, l_loads, l_created,
    \* ---- ClaimExtractor as a pure function
    x_pc, x_text, x_raw, x_claims,
    \* ---- ConfidenceCalibrator as a pure function
    c_pc, c_text, c_verdict, c_result,
    \* ---- the passages paired with one claim (top_k, then _prune_chunks)
    p_pc, p_claim, p_chunks, p_check,
    \* ---- DualPathConsensus
    d_pc, offline_response, online_response, d_available, d_threshold,
    online_factual, offline_texts, d_verdicts, agreed, disagreed,
    online_only, comparison, consensus

gvars == <<pc, config, model_loaded, env, nli_memo, predict_calls,
           llm_response, source_chunks, claims, claim_results, faith_score,
           result>>
rvars == <<r_pc, r_rows, r_result>>
bvars == <<b_pc, b_nli, b_i, all_results, consecutive_pass,
           consecutive_fail, b_exit, b_verified>>
evars == <<e_pc, engine, e_hits, e_llm, e_result>>
avars == <<audit_log, audit_outcome>>
tvars == <<a_pc, a_call, a_pos, a_append>>
lvars == <<l_pc, l_mode, guard_instance, l_guard, l_loaded, l_loads,
           l_created>>
xvars == <<x_pc, x_text, x_raw, x_claims>>
cvars == <<c_pc, c_text, c_verdict, c_result>>
pvars == <<p_pc, p_claim, p_chunks, p_check>>
dvars == <<d_pc, offline_response, online_response, d_available, d_threshold,
           online_factual, offline_texts, d_verdicts, agreed, disagreed,
           online_only, comparison, consensus>>
ovars == <<pvars, dvars>>
nvars == <<tvars, lvars, xvars, cvars, ovars>>
vars == <<gvars, rvars, bvars, evars, avars, nvars>>

(***************************************************************************)
(* Bounds of the model.                                                    *)
(***************************************************************************)
MaxSentences == 2   \* sentences of an answer
MaxPairs == 2       \* (passage, claim) pairs of one prediction
MaxBatch == 8       \* claims of one batch
MaxHits == 2        \* retrieval results of one query
MaxAnswerClaims == 2 \* claims of an answer given to the engine
MaxSegments == 4     \* segments of a text given to the extractor
MaxWords == 3        \* words of a claim given to the calibrator
NumThreads == 2      \* threads that make their first call together
MaxChunks == 6       \* passages given with one claim
MaxDual == 2         \* sentences of each of the two answers compared

(***************************************************************************)
(* Program constants.                                                      *)
(***************************************************************************)
MinWords == 4            \* is_factual_claim: fewer words is trivial
MinSentenceChars == 5    \* split_into_sentences: longer fragments are kept
RuleWidth == 40          \* _warn_header: "=" * 40
EarlyPass == 5           \* verify_batch_with_earlyexit(early_pass=5)
EarlyFail == 3           \* verify_batch_with_earlyexit(early_fail=3)
DefaultThreshold == 80   \* DEFAULT_FAITHFULNESS_THRESHOLD, in percent
MaxClaimsPerResponse == 50

(***************************************************************************)
(* Rationals.                                                              *)
(***************************************************************************)
Rat(n, d) == [n |-> n, d |-> d]
RatGT(p, q) == p.n * q.d > q.n * p.d
RatGE(p, q) == p.n * q.d >= q.n * p.d
RatEQ(p, q) == p.n * q.d = q.n * p.d
RatMax(p, q) == IF RatGT(q, p) THEN q ELSE p   \* Python max(p, q)
Pct(k) == Rat(k, 100)

(***************************************************************************)
(* Vocabulary.  A token is a word with its punctuation attached.           *)
(***************************************************************************)
Cite1 == "[Source: chunk_1]"
Cite2 == "[Source: chunk_2]"
UnsourcedTag == "[UNSOURCED INFERENCE]"
CitationTokens == {Cite1, Cite2}
UnverifiedMark == "[UNVERIFIED]"
ContradictedMark == "[!! CONTRADICTED - explanation]"

\* the abbreviations of split_into_sentences that are whole tokens, by the
\* case of their first letter
UpperAbbreviations ==
    {"Dr.", "Mr.", "Mrs.", "Ms.", "Prof.", "Sr.", "Jr.", "Fig.", "No.",
     "Vol.", "Rev.", "Gen.", "Col.", "Sgt.", "Corp.", "MHz.", "GHz."}
LowerAbbreviations ==
    {"vs.", "etc.", "i.e.", "e.g.", "approx.", "dept.", "fig.", "no.",
     "vol.", "dB.", "dBm.", "km.", "ft.", "lb."}
Abbreviations == UpperAbbreviations \cup LowerAbbreviations

\* the tokens by their first character
UpperStartTokens ==
    {"Radar", "The", "Gain", "X.", "Ok.", "Does", "Note:", "X?"}
        \cup UpperAbbreviations
QuoteStartTokens == {"'Radar"}
ParenStartTokens == {"(see"}
BracketStartTokens ==
    {Cite1, Cite2, UnsourcedTag, UnverifiedMark, ContradictedMark}
LowerStartTokens ==
    {"uses", "use", "band", "is", "dBi."} \cup LowerAbbreviations
DigitStartTokens == {"6", "3"}
CommaStartTokens == {","}

\* first character in [A-Z"'([ : where the splitting regex may start a sentence
SplitStartTokens ==
    UpperStartTokens \cup QuoteStartTokens \cup ParenStartTokens
        \cup BracketStartTokens
\* first character in [a-z0-9,( : an abbreviation before it is mid-sentence
MidStartTokens ==
    LowerStartTokens \cup DigitStartTokens \cup CommaStartTokens
        \cup ParenStartTokens
\* last character in [.!?]
EndTokens == {"X.", "dBi.", "Ok.", "X?"} \cup Abbreviations
QuestionTokens == {"X?"}
\* tokens whose lower-cased form starts a NON_CLAIM_PATTERNS match
NonClaimStartTokens == {"Note:"}

\* The sentences answers are built from.
SentP == <<"Radar", "uses", "band", "X.">>
SentQ == <<"The", "Radar", "uses", "band", "X.">>
SentM == <<"Radar", "uses", Cite1, "band", "X.">>
SentC == <<Cite1, "Gain", "is", "6", "dBi.">>
SentN == <<"Note:", "Radar", "uses", "band", "X.">>
SentF == <<"Ok.">>
SentencePool == {SentP, SentQ, SentM, SentC, SentN, SentF}

(***************************************************************************)
(* String operations on token sequences.                                   *)
(***************************************************************************)
RECURSIVE Flatten(_)
Flatten(ss) == IF ss = <<>> THEN <<>> ELSE Head(ss) \o Flatten(Tail(ss))

RECURSIVE SumLen(_)
SumLen(s) == IF s = <<>> THEN 0 ELSE Len(Head(s)) + SumLen(Tail(s))

\* len() of the Python string: the tokens and one blank between neighbours
CharLen(s) == IF s = <<>> THEN 0 ELSE SumLen(s) + Len(s) - 1

\* str.strip(): blanks at both ends go, so empty tokens at both ends go
RECURSIVE StripLeft(_)
StripLeft(s) ==
    IF s # <<>> /\ Head(s) = "" THEN StripLeft(Tail(s)) ELSE s

RECURSIVE StripRight(_)
StripRight(s) ==
    IF s # <<>> /\ s[Len(s)] = "" THEN StripRight(SubSeq(s, 1, Len(s) - 1))
    ELSE s

Strip(s) == StripRight(StripLeft(s))

MatchAt(t, s, i) ==
    /\ i + Len(s) - 1 <= Len(t)
    /\ \A k \in 1..Len(s) : t[i + k - 1] = s[k]

\* str.find(), 1-based; 0 when s does not occur in t
Find(t, s) ==
    LET hits == {i \in 1..(Len(t) + 1) : MatchAt(t, s, i)}
    IN IF hits = {} THEN 0 ELSE CHOOSE i \in hits : \A j \in hits : i <= j

\* str.replace(old, new, 1)
ReplaceFirst(t, old, new) ==
    LET i == Find(t, old)
    IN IF i = 0 THEN t
       ELSE SubSeq(t, 1, i - 1) \o new \o SubSeq(t, i + Len(old), Len(t))

\* number of occurrences of token x in t
Count(t, x) == Cardinality({i \in 1..Len(t) : t[i] = x})

(***************************************************************************)
(* ClaimExtractor.                                                         *)
(***************************************************************************)
\* a protection that leaves out the opening parenthesis
ProtectedWithoutParen(text, i) ==
    /\ text[i] \in Abbreviations
    /\ i < Len(text)
    /\ text[i + 1] \in MidStartTokens \ ParenStartTokens

\* an abbreviation period followed by lowercase, digit, comma or paren
Protected(text, i) ==
    /\ text[i] \in Abbreviations
    /\ i < Len(text)
    /\ text[i + 1] \in MidStartTokens

\* re.split(r'(?<=[.!?])\s+(?=[A-Z"\047([])'): a piece ends after token i
SplitsAfter(text, i) ==
    /\ i < Len(text)
    /\ text[i] \in EndTokens
    /\ ~Protected(text, i)
    /\ text[i + 1] \in SplitStartTokens

RECURSIVE RawPieces(_, _, _)
RawPieces(text, from, i) ==
    IF i > Len(text) THEN
        (IF from > Len(text) THEN <<>>
         ELSE <<SubSeq(text, from, Len(text))>>)
    ELSE IF SplitsAfter(text, i) THEN
        <<SubSeq(text, from, i)>> \o RawPieces(text, i + 1, i + 1)
    ELSE RawPieces(text, from, i + 1)

KeepPiece(s) == Strip(s) # <<>> /\ CharLen(Strip(s)) > MinSentenceChars

RECURSIVE StripAll(_)
StripAll(ps) ==
    IF ps = <<>> THEN <<>> ELSE <<Strip(Head(ps))>> \o StripAll(Tail(ps))

split_into_sentences(text) ==
    StripAll(SelectSeq(RawPieces(text, 1, 1), KeepPiece))

\* CITATION_PATTERN.sub("", s).strip().replace("[UNSOURCED INFERENCE]", "")
\* .strip(): a removed marker leaves its two blanks behind
Blanked(s, removed) ==
    [i \in 1..Len(s) |-> IF s[i] \in removed THEN "" ELSE s[i]]

CleanSentence(s) ==
    Strip(Blanked(Strip(Blanked(s, CitationTokens)), {UnsourcedTag}))

\* s_lower.split(): blank-separated words
WordCount(s) == Cardinality({i \in 1..Len(s) : s[i] # ""})

is_factual_claim(sentence) ==
    LET s == Strip(sentence)
    IN /\ ~(s # <<>> /\ Head(s) \in NonClaimStartTokens)
       /\ ~(s # <<>> /\ s[Len(s)] \in QuestionTokens)
       /\ ~(WordCount(s) < MinWords)

\* int(c) for the N of [Source: chunk_N]
CitedNumber(tok) == IF tok = Cite1 THEN 1 ELSE IF tok = Cite2 THEN 2 ELSE 0

CitedChunks(sentence) ==
    LET cs == SelectSeq(sentence, LAMBDA t : t \in CitationTokens)
    IN [i \in 1..Len(cs) |-> CitedNumber(cs[i])]

extract_claims(response_text) ==
    LET sentences == split_into_sentences(response_text)
    IN [i \in 1..Len(sentences) |->
          [text |-> CleanSentence(sentences[i]),
           cited_chunks |-> CitedChunks(sentences[i]),
           is_trivial |-> ~is_factual_claim(CleanSentence(sentences[i])),
           original_index |-> i - 1,
           original_text |-> sentences[i]]]

(***************************************************************************)
(* guard_types: verdicts, ClaimResult, GuardConfig.                        *)
(***************************************************************************)
SUPPORTED == "SUPPORTED"
CONTRADICTED == "CONTRADICTED"
UNSUPPORTED == "UNSUPPORTED"
TRIVIAL == "TRIVIAL"

NLI_LABEL_CONTRADICTION == 1   \* index 0 of a score row
NLI_LABEL_ENTAILMENT == 2      \* index 1 of a score row

ClaimResult(text, verdict, conf, src, expl) ==
    [claim_text |-> text, verdict |-> verdict, confidence |-> conf,
     best_source |-> src, source_file |-> "", explanation |-> expl]

Thresholds == {0, 50, DefaultThreshold}
FailureActions == {"block", "flag", "strip", "warn"}

GuardConfig ==
    [faithfulness_threshold : Thresholds,
     failure_action : FailureActions,
     max_claims_per_response : {MaxClaimsPerResponse},
     enable_confidence_check : {TRUE},
     enable_audit_log : {TRUE},
     offline_mode : BOOLEAN]

(***************************************************************************)
(* NLIVerifier.                                                            *)
(*                                                                         *)
(* A score row of the model is given by the exponentials of its three      *)
(* logits, in integer units; _softmax divides each by their sum.           *)
(***************************************************************************)
Weights == {0, 3, 7}
NLIRows == {w \in Weights \X Weights \X Weights : w[1] + w[2] + w[3] > 0}

_softmax(scores) ==
    LET total == scores[1] + scores[2] + scores[3]
    IN [k \in 1..3 |-> Rat(scores[k], total)]

\* load_model(): what it finds is recorded in env the first time it looks
LoadOutcomes(cfg) ==
    (IF cfg.offline_mode THEN {"no_cache"} ELSE {}) \cup
        {"encoder_fails", "encoder_ok"}

\* load_model reporting success whatever it found
load_model_always_true(loaded, outcome) == TRUE

load_model(loaded, outcome) == loaded \/ outcome = "encoder_ok"

\* chunks[:top_k]; with at most 3 chunks left _prune_chunks keeps them all
TopK == 5
CheckChunks(chunks) ==
    IF Len(chunks) > TopK THEN SubSeq(chunks, 1, TopK) ELSE chunks

(***************************************************************************)
(* _prune_chunks.  A passage is a row of tokens; the passages of a list    *)
(* are told apart by their place in it, so a list of passages is handled   *)
(* as the list of its indices.                                             *)
(***************************************************************************)
PruneKeep == 3
Stopwords == {"the", "and", "for", "use", "used", "using"}

\* w.lower() of a word of the claim, its non-alphanumeric characters removed
Cleaned(w) ==
    CASE w = "Radar" -> "radar"
      [] w = "The" -> "the"
      [] w = "Gain" -> "gain"
      [] w = "dBi." -> "dbi"
      [] w = "X." -> "x"
      [] OTHER -> w

\* the cleaned words of fewer than 3 characters
ShortWords == {"x", "6", "is"}

ClaimWords(claim_text) ==
    {Cleaned(claim_text[i]) : i \in 1..Len(claim_text)}
        \ (ShortWords \cup Stopwords)

\* chunk.lower() of a token of a passage
ChunkLower(tok) ==
    CASE tok = "Radar" -> "radar"
      [] tok = "Gain" -> "gain"
      [] tok = "dBi." -> "dbi."
      [] OTHER -> tok

\* the claim words that are inside a longer token
WordParts == {<<"band", "bands">>, <<"dbi", "dbi.">>}

\* `w in chunk_lower`
WordIn(w, chunk) ==
    \E i \in 1..Len(chunk) :
       \/ ChunkLower(chunk[i]) = w
       \/ <<w, ChunkLower(chunk[i])>> \in WordParts

Overlap(words, chunk) == Cardinality({w \in words : WordIn(w, chunk)})

\* scored.sort(key=overlap, reverse=True): highest first, equal overlaps in
\* the order of the list
RECURSIVE ByOverlap(_, _)
ByOverlap(ov, left) ==
    IF left = {} THEN <<>>
    ELSE LET best == CHOOSE i \in left :
                        \A j \in left :
                           ov[i] > ov[j] \/ (ov[i] = ov[j] /\ i <= j)
         IN <<best>> \o ByOverlap(ov, left \ {best})

\* idx: the indices in chunks of the passages handed to _prune_chunks
_prune_chunks(claim_text, chunks, idx, keep) ==
    IF Len(idx) <= keep THEN idx
    ELSE
        LET claim_words == ClaimWords(claim_text)
        IN IF claim_words = {} THEN SubSeq(idx, 1, keep)
           ELSE
               LET ov == [i \in 1..Len(idx) |->
                            Overlap(claim_words, chunks[idx[i]])]
                   scored == ByOverlap(ov, 1..Len(idx))
               IN [k \in 1..keep |-> idx[scored[k]]]

\* the loop over the score rows: best entailment, worst contradiction
RECURSIVE TrackScores(_, _, _)
TrackScores(scores, i, acc) ==
    IF i > Len(scores) THEN acc
    ELSE
        LET probs == _softmax(scores[i])
            ent == probs[NLI_LABEL_ENTAILMENT]
            con == probs[NLI_LABEL_CONTRADICTION]
            a1 == IF RatGT(ent, acc.best_ent_score)
                  THEN [acc EXCEPT !.best_ent_score = ent,
                                   !.best_ent_idx = i - 1]
                  ELSE acc
            a2 == IF RatGT(con, a1.worst_con_score)
                  THEN [a1 EXCEPT !.worst_con_score = con,
                                  !.worst_con_idx = i - 1]
                  ELSE a1
        IN TrackScores(scores, i + 1, a2)

InitialTrack ==
    [best_ent_score |-> Rat(-1, 1), best_ent_idx |-> -1,
     worst_con_score |-> Rat(-1, 1), worst_con_idx |-> -1]

\* DecideVerdict asking for entailment before contradiction
DecideVerdictEntailmentFirst(claim_text, check_chunks, scores) ==
    LET t == TrackScores(scores, 1, InitialTrack)
    IN IF RatGT(t.best_ent_score, Pct(50)) THEN
           ClaimResult(claim_text, SUPPORTED, t.best_ent_score,
                       check_chunks[t.best_ent_idx + 1], "SUPPORTED by chunk")
       ELSE IF RatGT(t.worst_con_score, Pct(70)) THEN
           ClaimResult(claim_text, CONTRADICTED, t.worst_con_score,
                       check_chunks[t.worst_con_idx + 1], "CONTRADICTED by chunk")
       ELSE
           ClaimResult(claim_text, UNSUPPORTED,
                       RatMax(t.best_ent_score, t.worst_con_score),
                       "", "UNSUPPORTED: No chunk confirms or denies")

\* the decision over the rows of one successful prediction
DecideVerdict(claim_text, check_chunks, scores) ==
    LET t == TrackScores(scores, 1, InitialTrack)
    IN IF RatGT(t.worst_con_score, Pct(70)) THEN
           ClaimResult(claim_text, CONTRADICTED, t.worst_con_score,
                       check_chunks[t.worst_con_idx + 1], "CONTRADICTED by chunk")
       ELSE IF RatGT(t.best_ent_score, Pct(50)) THEN
           ClaimResult(claim_text, SUPPORTED, t.best_ent_score,
                       check_chunks[t.best_ent_idx + 1], "SUPPORTED by chunk")
       ELSE
           ClaimResult(claim_text, UNSUPPORTED,
                       RatMax(t.best_ent_score, t.worst_con_score),
                       "", "UNSUPPORTED: No chunk confirms or denies")

\* verify_claim_against_chunks taking a failed prediction as support
verify_claim_failing_open(claim_text, chunks, available, prediction) ==
    IF ~available THEN
        ClaimResult(claim_text, UNSUPPORTED, Rat(0, 1), "",
                    "NLI model not available")
    ELSE IF chunks = <<>> THEN
        ClaimResult(claim_text, UNSUPPORTED, Rat(0, 1), "",
                    "No source chunks provided")
    ELSE IF prediction.raised THEN
        ClaimResult(claim_text, SUPPORTED, Rat(1, 1), "", "")
    ELSE DecideVerdict(claim_text, CheckChunks(chunks), prediction.scores)

\* prediction: model.predict() raised with a message, or one score row per
\* checked chunk
verify_claim_against_chunks(claim_text, chunks, available, prediction) ==
    IF ~available THEN
        ClaimResult(claim_text, UNSUPPORTED, Rat(0, 1), "",
                    "NLI model not available")
    ELSE IF chunks = <<>> THEN
        ClaimResult(claim_text, UNSUPPORTED, Rat(0, 1), "",
                    "No source chunks provided")
    ELSE IF prediction.raised THEN
        ClaimResult(claim_text, UNSUPPORTED, Rat(0, 1), "",
                    "NLI error: " \o prediction.error)
    ELSE DecideVerdict(claim_text, CheckChunks(chunks), prediction.scores)

(***************************************************************************)
(* ConfidenceCalibrator.                                                   *)
(***************************************************************************)
OverconfidenceTokens ==
    {"definitely", "certainly", "always", "never", "proven"}
HedgeTokens == {"may", "might", "approximately", "likely"}

\* text.lower() of a token
LowerCase(tok) == IF tok = "Definitely" THEN "definitely" ELSE tok

\* the words of the lists that are inside a longer token
PartOf == {<<"proven", "unproven">>, <<"may", "dismay">>}

\* `w in text_lower` for the part of the text that is token tok
InToken(w, tok) == LowerCase(tok) = w \/ <<w, LowerCase(tok)>> \in PartOf

MarkersFound(claim_text) ==
    {m \in OverconfidenceTokens :
        \E i \in 1..Len(claim_text) : InToken(m, claim_text[i])}

HedgesFound(claim_text) ==
    {h \in HedgeTokens :
        \E i \in 1..Len(claim_text) : InToken(h, claim_text[i])}

check_overconfidence(claim_text, verdict) ==
    IF verdict \in {SUPPORTED, TRIVIAL} THEN
        [is_overconfident |-> FALSE, markers_found |-> {},
         has_hedging |-> FALSE, severity |-> "none"]
    ELSE
        LET markers == MarkersFound(claim_text)
            hedges == HedgesFound(claim_text)
            is_oc == markers # {} /\ hedges = {}
            sev == IF verdict = CONTRADICTED THEN "high"
                   ELSE IF is_oc /\ Cardinality(markers) >= 2 THEN "high"
                   ELSE IF is_oc THEN "medium"
                   ELSE IF verdict = UNSUPPORTED THEN "low"
                   ELSE "none"
        IN [is_overconfident |-> is_oc, markers_found |-> markers,
            has_hedging |-> hedges # {}, severity |-> sev]

\* Layer 4 of verify(): an overconfident claim gets a tag on its explanation
Calibrate(cr) ==
    LET cal == check_overconfidence(cr.claim_text, cr.verdict)
    IN IF cal.is_overconfident
       THEN [cr EXCEPT !.explanation =
                 @ \o " [OVERCONFIDENCE: " \o cal.severity \o "]"]
       ELSE cr

(***************************************************************************)
(* ResponseConstructor.                                                    *)
(***************************************************************************)
WithVerdict(results, verdicts) ==
    SelectSeq(results, LAMBDA cr : cr.verdict \in verdicts)

ScoreText(score) == ToString(score.n) \o "/" \o ToString(score.d)

BlockTitle == "== RESPONSE BLOCKED BY HALLUCINATION GUARD =="
WarnTitle == "== HALLUCINATION GUARD WARNING =="
WarnAdvice == "Cross-check critical facts against source documents."
AllUnverifiedMsg == <<"[All claims unverified.]">>
RemovedNote(removed) == "[Note: " \o ToString(removed) \o " claim(s) removed]"

BlockOptions == "OPTIONS: rephrase, check the index, use offline mode"

\* the lines of the listed claims; a contradicted claim is followed by its
\* explanation
RECURSIVE BlockList(_, _, _)
BlockList(crs, bullet, explained) ==
    IF crs = <<>> THEN <<>>
    ELSE <<bullet>> \o Head(crs).claim_text
         \o (IF explained THEN <<Head(crs).explanation>> ELSE <<>>)
         \o BlockList(Tail(crs), bullet, explained)

_block_msg(score, results, cfg) ==
    LET contras == WithVerdict(results, {CONTRADICTED})
        unsup == WithVerdict(results, {UNSUPPORTED})
    IN <<BlockTitle, "Faithfulness Score:", ScoreText(score),
         "(threshold:", ToString(cfg.faithfulness_threshold),
         "Contradicted Claims:", ToString(Len(contras)),
         "Unsupported Claims:", ToString(Len(unsup)), BlockOptions>>
       \o (IF contras # <<>>
           THEN <<"CONTRADICTED CLAIMS:">> \o BlockList(contras, "[X]", TRUE)
           ELSE <<>>)
       \o (IF unsup # <<>>
           THEN <<"UNSUPPORTED CLAIMS (first 5):">>
                \o BlockList(SubSeq(unsup, 1, IF Len(unsup) < 5
                                              THEN Len(unsup) ELSE 5),
                             "[?]", FALSE)
           ELSE <<>>)

RECURSIVE _flag_claims(_, _, _)
_flag_claims(flagged, results, only_contradictions) ==
    IF results = <<>> THEN flagged
    ELSE
        LET cr == Head(results)
            next ==
                IF cr.verdict = CONTRADICTED THEN
                    ReplaceFirst(flagged, cr.claim_text,
                                 <<ContradictedMark>> \o cr.claim_text)
                ELSE IF cr.verdict = UNSUPPORTED /\ ~only_contradictions THEN
                    ReplaceFirst(flagged, cr.claim_text,
                                 <<UnverifiedMark>> \o cr.claim_text)
                ELSE flagged
        IN _flag_claims(next, Tail(results), only_contradictions)

\* BadTexts without the UNSUPPORTED claims
BadTextsContradictedOnly(results) ==
    {results[i].claim_text : i \in
        {j \in 1..Len(results) : results[j].verdict = CONTRADICTED}}

BadTexts(results) ==
    {results[i].claim_text : i \in
        {j \in 1..Len(results) :
            results[j].verdict \in {CONTRADICTED, UNSUPPORTED}}}

_strip_claims(original, results) ==
    LET sentences == split_into_sentences(original)
        bad == BadTexts(results)
        kept == SelectSeq(sentences, LAMBDA s : CleanSentence(s) \notin bad)
        removed == Len(sentences) - Len(kept)
    IN IF kept = <<>> THEN AllUnverifiedMsg
       ELSE Flatten(kept)
            \o (IF removed > 0 THEN <<RemovedNote(removed)>> ELSE <<>>)

RECURSIVE Repeat(_, _)
Repeat(s, k) == IF k = 0 THEN <<>> ELSE s \o Repeat(s, k - 1)

\* adjacent string literals are joined before "*" applies: the four header
\* lines and the "=" are one literal, repeated 40 times
_warn_header(original, score, results) ==
    LET c == Len(WithVerdict(results, {CONTRADICTED}))
        u == Len(WithVerdict(results, {UNSUPPORTED}))
    IN Repeat(<<WarnTitle, "Faithfulness:", ScoreText(score),
                "Contradicted:", ToString(c), "Unsupported:", ToString(u),
                WarnAdvice, "=">>, RuleWidth)
       \o original

\* build_safe_response applying the failure action whenever the answer is
\* not safe, contradictions included
build_safe_response_by_action(original, results, score, cfg) ==
    IF /\ RatGE(score, Pct(cfg.faithfulness_threshold))
       /\ WithVerdict(results, {CONTRADICTED}) = <<>> THEN original
    ELSE IF cfg.failure_action = "block" THEN _block_msg(score, results, cfg)
    ELSE IF cfg.failure_action = "strip" THEN _strip_claims(original, results)
    ELSE IF cfg.failure_action = "warn" THEN
        _warn_header(original, score, results)
    ELSE _flag_claims(original, results, FALSE)

build_safe_response(original, results, score, cfg) ==
    IF RatGE(score, Pct(cfg.faithfulness_threshold)) THEN
        (IF WithVerdict(results, {CONTRADICTED}) = <<>> THEN original
         ELSE _flag_claims(original, results, TRUE))
    ELSE IF cfg.failure_action = "block" THEN _block_msg(score, results, cfg)
    ELSE IF cfg.failure_action = "strip" THEN _strip_claims(original, results)
    ELSE IF cfg.failure_action = "warn" THEN
        _warn_header(original, score, results)
    ELSE _flag_claims(original, results, FALSE)

(***************************************************************************)
(* HallucinationGuard.verify().                                            *)
(***************************************************************************)
\* FaithScore with the TRIVIAL results counted in the denominator
FaithScoreOverAll(results) ==
    LET sup == Len(WithVerdict(results, {SUPPORTED}))
    IN IF results # <<>> THEN Rat(sup, Len(results)) ELSE Rat(1, 1)

\* FaithScore giving 0.0 when nothing is verifiable
FaithScoreZeroWhenEmpty(results) ==
    LET verifiable == SelectSeq(results, LAMBDA cr : cr.verdict # TRIVIAL)
        sup == Len(WithVerdict(verifiable, {SUPPORTED}))
    IN IF verifiable # <<>> THEN Rat(sup, Len(verifiable)) ELSE Rat(0, 1)

\* Layer 3: supported / verifiable, 1.0 when nothing is verifiable
FaithScore(results) ==
    LET verifiable == SelectSeq(results, LAMBDA cr : cr.verdict # TRIVIAL)
        sup == Len(WithVerdict(verifiable, {SUPPORTED}))
    IN IF verifiable # <<>> THEN Rat(sup, Len(verifiable)) ELSE Rat(1, 1)

\* SafetyDecision without the zero tolerance for contradictions
SafetyDecisionScoreOnly(results, score, threshold) ==
    RatGE(score, Pct(threshold))

\* the final safety decision
\* a decision that looks at contradictions only
SafetyDecisionContradictionsOnly(results, score, threshold) ==
    Len(WithVerdict(results, {CONTRADICTED})) = 0

SafetyDecision(results, score, threshold) ==
    LET contra_count == Len(WithVerdict(results, {CONTRADICTED}))
    IN IF contra_count > 0 THEN FALSE ELSE RatGE(score, Pct(threshold))

Texts(crs) == [i \in 1..Len(crs) |-> crs[i].claim_text]

\* a result whose total leaves the trivial claims out
GuardResultVerifiableTotal(response, results, score, cfg) ==
    [is_safe |-> SafetyDecision(results, score, cfg.faithfulness_threshold),
     original_response |-> response,
     safe_response |-> build_safe_response(response, results, score, cfg),
     faithfulness_score |-> score,
     supported_count |-> Len(WithVerdict(results, {SUPPORTED})),
     contradicted_count |-> Len(WithVerdict(results, {CONTRADICTED})),
     unsupported_count |-> Len(WithVerdict(results, {UNSUPPORTED})),
     trivial_count |-> Len(WithVerdict(results, {TRIVIAL})),
     total_claims |-> Len(WithVerdict(results, {SUPPORTED, CONTRADICTED,
                                                UNSUPPORTED})),
     claim_results |-> results,
     contradictions |-> Texts(WithVerdict(results, {CONTRADICTED})),
     unverified_claims |-> Texts(WithVerdict(results, {UNSUPPORTED}))]

GuardResult(response, results, score, cfg) ==
    [is_safe |-> SafetyDecision(results, score, cfg.faithfulness_threshold),
     original_response |-> response,
     safe_response |-> build_safe_response(response, results, score, cfg),
     faithfulness_score |-> score,
     supported_count |-> Len(WithVerdict(results, {SUPPORTED})),
     contradicted_count |-> Len(WithVerdict(results, {CONTRADICTED})),
     unsupported_count |-> Len(WithVerdict(results, {UNSUPPORTED})),
     trivial_count |-> Len(WithVerdict(results, {TRIVIAL})),
     total_claims |-> Len(results),
     claim_results |-> results,
     contradictions |-> Texts(WithVerdict(results, {CONTRADICTED})),
     unverified_claims |-> Texts(WithVerdict(results, {UNSUPPORTED}))]

NoResult == GuardResult(<<>>, <<>>, Rat(0, 1),
                        [faithfulness_threshold |-> DefaultThreshold,
                         failure_action |-> "flag"])

\* the audit record of a result: counts and verdict texts, no source text
AuditEntry(res, cfg) ==
    [whole |-> TRUE,
     is_safe |-> res.is_safe,
     faithfulness_score |-> res.faithfulness_score,
     total_claims |-> res.total_claims,
     supported |-> res.supported_count,
     contradicted |-> res.contradicted_count,
     unsupported |-> res.unsupported_count,
     trivial |-> res.trivial_count,
     contradictions |-> res.contradictions,
     failure_action |-> cfg.failure_action,
     threshold |-> cfg.faithfulness_threshold]

\* what can happen to one write: the directory cannot be made, the file
\* cannot be opened, the write fails before or after part of the line
WriteOutcomes ==
    {"ok", "makedirs_fails", "open_fails", "write_fails", "write_partial"}

\* a writer without the try/except: every failure reaches the caller
_write_audit_log_propagating(log, entry, outcome) ==
    [log |-> IF outcome = "ok" THEN Append(log, entry)
             ELSE IF outcome = "write_partial"
             THEN Append(log, [entry EXCEPT !.whole = FALSE])
             ELSE log,
     raised |-> outcome # "ok"]

\* _write_audit_log: the file afterwards, and whether the caller sees an
\* exception
_write_audit_log(log, entry, outcome) ==
    [log |-> IF outcome = "ok" THEN Append(log, entry)
             ELSE IF outcome = "write_partial"
             THEN Append(log, [entry EXCEPT !.whole = FALSE])
             ELSE log,
     raised |-> FALSE]

\* the inputs of verify()
Answers ==
    {Flatten(ss) : ss \in UNION {[1..n -> SentencePool] : n \in 0..MaxSentences}}
ChunkLists == {<<>>, <<"chunk 1">>}

\* the rows the model answers with in verify(): one per verdict
PipelineRows == {<<7, 1, 1>>, <<1, 7, 1>>, <<1, 1, 7>>}
PredictErrors == {"out of memory"}
Predictions(chunks) ==
    [raised : {FALSE},
     scores : [1..Len(CheckChunks(chunks)) -> PipelineRows],
     error : {""}]
    \cup [raised : {TRUE}, scores : {<<>>}, error : PredictErrors]
NoPrediction == [raised |-> FALSE, scores |-> <<>>, error |-> ""]

\* verify() without the cap on the claims
CapOff(cs, cfg) == cs

Cap(cs, cfg) ==
    IF Len(cs) > cfg.max_claims_per_response
    THEN SubSeq(cs, 1, cfg.max_claims_per_response) ELSE cs

GuardIdle ==
    /\ pc = "idle"
    /\ model_loaded = FALSE
    /\ env = "unknown"
    /\ nli_memo = <<>>
    /\ predict_calls = 0
    /\ llm_response = <<>>
    /\ source_chunks = <<>>
    /\ claims = <<>>
    /\ claim_results = <<>>
    /\ faith_score = Rat(0, 1)
    /\ result = NoResult

GuardOnly == UNCHANGED <<rvars, bvars, evars, nvars>>

\* verify(llm_response, source_chunks) is called
Receive ==
    /\ GuardOnly /\ UNCHANGED avars
    /\ pc = "idle"
    /\ \E a \in Answers, cs \in ChunkLists :
          /\ llm_response' = a
          /\ source_chunks' = cs
    /\ pc' = "received"
    /\ UNCHANGED <<config, model_loaded, env, nli_memo, predict_calls,
                   claims, claim_results, faith_score, result>>

\* Layer 2a: extract the claims and cap them
Extract ==
    /\ GuardOnly /\ UNCHANGED avars
    /\ pc = "received"
    /\ claims' = Cap(extract_claims(llm_response), config)
    /\ claim_results' = <<>>
    /\ pc' = IF claims' = <<>> THEN "verified" ELSE "extracted"
    /\ UNCHANGED <<config, model_loaded, env, nli_memo, predict_calls,
                   llm_response, source_chunks,
                   faith_score, result>>

\* Layer 2b without the test of is_trivial: every claim goes to the model
NoPassThrough(claim) == FALSE

\* a trivial claim gets its result without the model
PassThrough(claim) == claim.is_trivial

\* Layer 2b: one pass of the loop over the claims
VerifyClaim ==
    /\ GuardOnly /\ UNCHANGED avars
    /\ pc = "extracted"
    /\ Len(claim_results) < Len(claims)
    /\ LET claim == claims[Len(claim_results) + 1]
       IN IF PassThrough(claim) THEN
              /\ claim_results' = Append(claim_results,
                     ClaimResult(claim.text, TRIVIAL, Rat(1, 1), "",
                                 "Non-factual sentence"))
              /\ UNCHANGED <<model_loaded, env, nli_memo, predict_calls>>
          ELSE
              \E outcome \in (IF model_loaded THEN {"encoder_ok"}
                              ELSE IF env # "unknown" THEN {env}
                              ELSE LoadOutcomes(config)) :
                LET available == load_model(model_loaded, outcome)
                    asks == available /\ source_chunks # <<>>
                IN \E prediction \in
                       (IF ~asks THEN {NoPrediction}
                        ELSE IF claim.text \in DOMAIN nli_memo
                        THEN {nli_memo[claim.text]}
                        ELSE Predictions(source_chunks)) :
                     /\ model_loaded' = available
                     /\ env' = outcome
                     /\ nli_memo' =
                          IF asks
                          THEN [t \in DOMAIN nli_memo \cup {claim.text} |->
                                   IF t = claim.text THEN prediction
                                   ELSE nli_memo[t]]
                          ELSE nli_memo
                     /\ predict_calls' =
                          IF asks THEN predict_calls + 1 ELSE predict_calls
                     /\ claim_results' = Append(claim_results,
                            verify_claim_against_chunks(
                                claim.text, source_chunks, available,
                                prediction))
    /\ pc' = IF Len(claim_results') = Len(claims) THEN "verified"
             ELSE "extracted"
    /\ UNCHANGED <<config, llm_response, source_chunks, claims,
                   faith_score, result>>

\* Layers 3 and 4: the faithfulness score, then the calibration
ScoreAndCalibrate ==
    /\ GuardOnly /\ UNCHANGED avars
    /\ pc = "verified"
    /\ faith_score' = FaithScore(claim_results)
    /\ claim_results' =
          IF config.enable_confidence_check
          THEN [i \in 1..Len(claim_results) |-> Calibrate(claim_results[i])]
          ELSE claim_results
    /\ pc' = "calibrated"
    /\ UNCHANGED <<config, model_loaded, env, nli_memo, predict_calls,
                   llm_response, source_chunks,
                   claims, result>>

\* the safety decision, the safe response and the result object
Construct ==
    /\ GuardOnly /\ UNCHANGED avars
    /\ pc = "calibrated"
    /\ result' = GuardResult(llm_response, claim_results, faith_score, config)
    /\ pc' = "constructed"
    /\ UNCHANGED <<config, model_loaded, env, nli_memo, predict_calls,
                   llm_response, source_chunks,
                   claims, claim_results, faith_score>>

Return ==
    /\ GuardOnly
    /\ pc = "constructed"
    /\ IF config.enable_audit_log THEN
           \E outcome \in WriteOutcomes :
              LET w == _write_audit_log(audit_log,
                                        AuditEntry(result, config), outcome)
              IN /\ audit_log' = w.log
                 /\ audit_outcome' = outcome
                 /\ pc' = IF w.raised THEN "raised" ELSE "returned"
       ELSE
           /\ UNCHANGED avars
           /\ pc' = "returned"
    /\ UNCHANGED <<config, model_loaded, env, nli_memo, predict_calls,
                   llm_response, source_chunks,
                   claims, claim_results, faith_score, result>>

(***************************************************************************)
(* Idle values of the parts a specification does not run.                  *)
(***************************************************************************)
NoClaimResult == ClaimResult(<<>>, TRIVIAL, Rat(0, 1), "", "")
RuleIdle == r_pc = "off" /\ r_rows = <<>> /\ r_result = NoClaimResult
BatchIdle ==
    /\ b_pc = "off" /\ b_nli = <<>> /\ b_i = 0 /\ all_results = <<>>
    /\ consecutive_pass = 0 /\ consecutive_fail = 0 /\ b_exit = "none"
    /\ b_verified = <<>>
EngineIdle ==
    /\ e_pc = "off" /\ engine = <<>> /\ e_hits = <<>> /\ e_llm = <<>>
    /\ e_result = <<>>

AuditIdle == audit_log = <<>> /\ audit_outcome = "none"
ThreadsIdle ==
    /\ a_pc = <<>> /\ a_call = <<>> /\ a_pos = <<>> /\ a_append = "none"
LoadIdle ==
    /\ l_pc = <<>> /\ l_mode = "none" /\ guard_instance = 0
    /\ l_guard = <<>> /\ l_loaded = <<>> /\ l_loads = <<>> /\ l_created = 0
ExtractIdle ==
    /\ x_pc = "off" /\ x_text = <<>> /\ x_raw = <<>> /\ x_claims = <<>>
CalibIdle ==
    /\ c_pc = "off" /\ c_text = <<>> /\ c_verdict = TRIVIAL
    /\ c_result = check_overconfidence(<<>>, TRIVIAL)
PruneIdle ==
    /\ p_pc = "off" /\ p_claim = <<>> /\ p_chunks = <<>> /\ p_check = <<>>
NoComparison ==
    [agreement_score |-> Rat(0, 1), agreed_claims |-> <<>>,
     disagreed_claims |-> <<>>, online_only |-> <<>>, offline_only |-> <<>>]
DualIdle ==
    /\ d_pc = "off" /\ offline_response = <<>> /\ online_response = <<>>
    /\ d_available = FALSE /\ d_threshold = 0
    /\ online_factual = <<>> /\ offline_texts = <<>> /\ d_verdicts = <<>>
    /\ agreed = <<>> /\ disagreed = <<>> /\ online_only = <<>>
    /\ comparison = NoComparison /\ consensus = <<>>
OtherIdle == PruneIdle /\ DualIdle
RestIdle == ThreadsIdle /\ LoadIdle /\ ExtractIdle /\ CalibIdle /\ OtherIdle

(***************************************************************************)
(* Spec: one HallucinationGuard, one verify() call.                        *)
(***************************************************************************)
Init == config \in GuardConfig /\ GuardIdle
           /\ RuleIdle /\ BatchIdle /\ EngineIdle /\ AuditIdle /\ RestIdle

Next ==
    \/ Receive
    \/ Extract
    \/ VerifyClaim
    \/ ScoreAndCalibrate
    \/ Construct
    \/ Return

Spec == Init /\ [][Next]_vars

(***************************************************************************)
(* SpecCap: verify() of a guard configured with a small                    *)
(* max_claims_per_response, so that answers have more claims than the cap. *)
(***************************************************************************)
SmallCaps == {1, 2}

CapInit ==
    /\ config \in [faithfulness_threshold : {DefaultThreshold},
                    failure_action : {"flag"},
                    max_claims_per_response : SmallCaps,
                    enable_confidence_check : {TRUE},
                    enable_audit_log : {TRUE},
                    offline_mode : BOOLEAN]
    /\ GuardIdle
    /\ RuleIdle /\ BatchIdle /\ EngineIdle /\ AuditIdle /\ RestIdle

SpecCap == CapInit /\ [][Next]_vars

(***************************************************************************)
(* SpecPrune: the passages verify_claim_against_chunks pairs with one      *)
(* claim, the model loaded.  p_check holds the indices of check_chunks.  *)
(***************************************************************************)
PruneClaims == {SentP, <<"Gain", "is", "6", "dBi.">>, <<"The", "X.">>}
ChunkPool == {<<"radar", "bands">>, <<"Radar", "Gain">>, <<"noise">>}

PruneInit ==
    /\ p_pc = "called"
    /\ p_claim \in PruneClaims
    /\ p_chunks \in UNION {[1..n -> ChunkPool] : n \in 0..MaxChunks}
    /\ p_check = <<>>
    /\ config = [faithfulness_threshold |-> DefaultThreshold,
                 failure_action |-> "flag",
                 max_claims_per_response |-> MaxClaimsPerResponse,
                 enable_confidence_check |-> TRUE, offline_mode |-> FALSE]
    /\ GuardIdle /\ RuleIdle /\ BatchIdle /\ EngineIdle /\ AuditIdle
    /\ ThreadsIdle /\ LoadIdle /\ ExtractIdle /\ CalibIdle /\ DualIdle

PruneOnly ==
    UNCHANGED <<gvars, rvars, bvars, evars, avars, tvars, lvars, xvars, cvars,
                dvars, p_claim, p_chunks>>

\* the guard on the passages, then check_chunks = chunks[:top_k]
LimitChunks ==
    /\ p_pc = "called"
    /\ IF p_chunks = <<>> THEN
           /\ p_pc' = "returned"
           /\ p_check' = p_check
       ELSE
           /\ p_check' = CheckChunks([i \in 1..Len(p_chunks) |-> i])
           /\ p_pc' = "limited"
    /\ PruneOnly

\* the pruning, then the pairs
PruneChunks ==
    /\ p_pc = "limited"
    /\ p_check' =
          IF Len(p_check) > PruneKeep
          THEN _prune_chunks(p_claim, p_chunks, p_check, PruneKeep)
          ELSE p_check
    /\ p_pc' = "paired"
    /\ PruneOnly

PruneNext == LimitChunks \/ PruneChunks

SpecPrune == PruneInit /\ [][PruneNext]_vars

(***************************************************************************)
(* SpecDual: DualPathConsensus.compare_responses, then                     *)
(* build_consensus_response on its result.  d_verdicts keeps, per online   *)
(* claim, the verdict verify_claim_against_chunks gave, "none" when it was *)
(* not called.                                                             *)
(***************************************************************************)
DefaultConsensusThreshold == 70    \* percent
ConsensusRuleWidth == 40
ListedOnlineOnly == 5
ConsensusThresholds == {50, DefaultConsensusThreshold}
ConsensusTitle == "== DUAL-PATH CONSENSUS =="
DisagreementsTitle == "[DISAGREEMENTS - cross-check]:"
LowConsensusNote == "[LOW CONSENSUS: Using offline response for safety]"
OnlineOnlyTitle == "[Online-only claims (UNVERIFIED)]:"

OnlinePool == {SentP, SentC, SentN}
OfflinePool == {SentP, SentN}
OnlineAnswers ==
    {Flatten(ss) : ss \in UNION {[1..n -> OnlinePool] : n \in 0..MaxDual}}
OfflineAnswers ==
    {Flatten(ss) : ss \in UNION {[1..n -> OfflinePool] : n \in 0..MaxDual}}

\* the claims of an answer with the trivial ones left in
FactualAll(cs) == cs

Factual(cs) == SelectSeq(cs, LAMBDA c : ~c.is_trivial)
TextsOf(cs) == [i \in 1..Len(cs) |-> cs[i].text]

AgreementScore(n_agreed, total) ==
    IF total > 0 THEN Rat(n_agreed, total) ELSE Rat(1, 1)

Comparison(score, ag, dis, only, offl) ==
    [agreement_score |-> score, agreed_claims |-> ag,
     disagreed_claims |-> dis, online_only |-> only, offline_only |-> offl]

\* f"{s:.0%}": the percentage rounded to the nearest integer, halves to even
PercentText(s) ==
    LET q == (100 * s.n) \div s.d
        r == (100 * s.n) % s.d
        up == 2 * r > s.d \/ (2 * r = s.d /\ q % 2 = 1)
    IN ToString(IF up THEN q + 1 ELSE q) \o "%"

ConsensusHeader(cmp) ==
    <<ConsensusTitle, "Agreement:", PercentText(cmp.agreement_score),
      "Agreed:", ToString(Len(cmp.agreed_claims)),
      "Disagreed:", ToString(Len(cmp.disagreed_claims))>>
        \o Repeat(<<"=">>, ConsensusRuleWidth)

\* one "  [?] text" line per item
Listed(items) == Flatten([k \in 1..Len(items) |-> <<"[?]">> \o items[k]])

build_consensus_response(cmp, online_resp, offline_resp, threshold) ==
    LET body ==
          IF RatGE(cmp.agreement_score, Pct(threshold)) THEN
              online_resp \o
                 (IF cmp.disagreed_claims # <<>>
                  THEN <<DisagreementsTitle>> \o Listed(cmp.disagreed_claims)
                  ELSE <<>>)
          ELSE
              <<LowConsensusNote>> \o offline_resp \o
                 (IF cmp.online_only # <<>>
                  THEN <<OnlineOnlyTitle>> \o
                       Listed(IF Len(cmp.online_only) > ListedOnlineOnly
                              THEN SubSeq(cmp.online_only, 1, ListedOnlineOnly)
                              ELSE cmp.online_only)
                  ELSE <<>>)
    IN ConsensusHeader(cmp) \o body

DualInit ==
    /\ d_pc = "called"
    /\ offline_response \in OfflineAnswers
    /\ online_response \in OnlineAnswers
    /\ d_available \in BOOLEAN
    /\ d_threshold \in ConsensusThresholds
    /\ online_factual = <<>> /\ offline_texts = <<>> /\ d_verdicts = <<>>
    /\ agreed = <<>> /\ disagreed = <<>> /\ online_only = <<>>
    /\ comparison = NoComparison /\ consensus = <<>>
    /\ config = [faithfulness_threshold |-> DefaultThreshold,
                 failure_action |-> "flag",
                 max_claims_per_response |-> MaxClaimsPerResponse,
                 enable_confidence_check |-> TRUE, offline_mode |-> FALSE]
    /\ GuardIdle /\ RuleIdle /\ BatchIdle /\ EngineIdle /\ AuditIdle
    /\ ThreadsIdle /\ LoadIdle /\ ExtractIdle /\ CalibIdle /\ PruneIdle

DualOnly ==
    UNCHANGED <<gvars, rvars, bvars, evars, avars, tvars, lvars, xvars, cvars,
                pvars, offline_response, online_response, d_available,
                d_threshold>>

\* the claims of both answers; the early return when the online answer has
\* no factual claim
ExtractBoth ==
    /\ d_pc = "called"
    /\ LET on == Factual(extract_claims(online_response))
           off == TextsOf(Factual(extract_claims(offline_response)))
       IN /\ online_factual' = on
          /\ offline_texts' = off
          /\ IF on = <<>> THEN
                 /\ comparison' =
                       Comparison(Rat(1, 1), <<>>, <<>>, <<>>, off)
                 /\ d_pc' = "compared"
             ELSE
                 /\ comparison' = comparison
                 /\ d_pc' = "loop"
    /\ UNCHANGED <<d_verdicts, agreed, disagreed, online_only, consensus>>
    /\ DualOnly

\* one pass of the loop over the online claims
CompareClaim ==
    /\ d_pc = "loop"
    /\ Len(d_verdicts) < Len(online_factual)
    /\ LET claim == online_factual[Len(d_verdicts) + 1]
       IN IF offline_texts = <<>> THEN
              /\ online_only' = Append(online_only, claim.text)
              /\ d_verdicts' = Append(d_verdicts, "none")
              /\ UNCHANGED <<agreed, disagreed>>
          ELSE
              \E prediction \in (IF d_available
                                 THEN Predictions(offline_texts)
                                 ELSE {NoPrediction}) :
                 LET result_ == verify_claim_against_chunks(
                                    claim.text, offline_texts, d_available,
                                    prediction)
                 IN /\ d_verdicts' = Append(d_verdicts, result_.verdict)
                    /\ agreed' = IF result_.verdict = SUPPORTED
                                 THEN Append(agreed, claim.text) ELSE agreed
                    /\ disagreed' = IF result_.verdict = CONTRADICTED
                                    THEN Append(disagreed, claim.text)
                                    ELSE disagreed
                    /\ online_only' =
                          IF result_.verdict \notin {SUPPORTED, CONTRADICTED}
                          THEN Append(online_only, claim.text)
                          ELSE online_only
    /\ UNCHANGED <<d_pc, online_factual, offline_texts, comparison, consensus>>
    /\ DualOnly

\* after the loop: the score and the dict returned
FinishCompare ==
    /\ d_pc = "loop"
    /\ Len(d_verdicts) = Len(online_factual)
    /\ comparison' =
          Comparison(AgreementScore(Len(agreed), Len(online_factual)),
                     agreed, disagreed, online_only, offline_texts)
    /\ d_pc' = "compared"
    /\ UNCHANGED <<online_factual, offline_texts, d_verdicts, agreed,
                   disagreed, online_only, consensus>>
    /\ DualOnly

BuildConsensus ==
    /\ d_pc = "compared"
    /\ consensus' = build_consensus_response(comparison, online_response,
                                             offline_response, d_threshold)
    /\ d_pc' = "built"
    /\ UNCHANGED <<online_factual, offline_texts, d_verdicts, agreed,
                   disagreed, online_only, comparison>>
    /\ DualOnly

DualNext ==
    \/ ExtractBoth
    \/ CompareClaim
    \/ FinishCompare
    \/ BuildConsensus

SpecDual == DualInit /\ [][DualNext]_vars

(***************************************************************************)
(* SpecRule: verify_claim_against_chunks on one prediction, the model      *)
(* loaded and one passage per score row.                                   *)
(***************************************************************************)
RuleClaim == <<"claim">>
Passages(n) == [i \in 1..n |-> "passage " \o ToString(i)]

RuleInit ==
    /\ r_pc = "called"
    /\ r_rows \in UNION {[1..n -> NLIRows] : n \in 1..MaxPairs}
    /\ r_result = NoClaimResult
    /\ config = [faithfulness_threshold |-> DefaultThreshold,
                 failure_action |-> "flag",
                 max_claims_per_response |-> MaxClaimsPerResponse,
                 enable_confidence_check |-> TRUE, offline_mode |-> FALSE]
    /\ GuardIdle /\ BatchIdle /\ EngineIdle /\ AuditIdle /\ RestIdle

ApplyRule ==
    /\ r_pc = "called"
    /\ r_result' = verify_claim_against_chunks(
                       RuleClaim, Passages(Len(r_rows)), TRUE,
                       [raised |-> FALSE, scores |-> r_rows, error |-> ""])
    /\ r_pc' = "returned"
    /\ UNCHANGED <<r_rows, gvars, bvars, evars, avars, nvars>>

RuleNext == ApplyRule

SpecRule == RuleInit /\ [][RuleNext]_vars

(***************************************************************************)
(* SpecBatch: verify_batch_with_earlyexit, the model loaded and passages   *)
(* given.  Claim j is the text <<j>>; b_nli[j] is what the model answers   *)
(* for it.                                                                 *)
(***************************************************************************)
BatchClaim(j) == <<ToString(j)>>
BatchChunks == <<"chunk 1">>
BatchPrediction(nli, j) ==
    [raised |-> FALSE, scores |-> <<nli[j]>>, error |-> ""]

\* each claim verified on its own, no early exit
Individually(nli) ==
    [j \in 1..Len(nli) |->
        verify_claim_against_chunks(BatchClaim(j), BatchChunks, TRUE,
                                    BatchPrediction(nli, j))]

\* EarlyPassExit without the condition on the length of the list
EarlyPassExitAnyLength(cpass, i, n) ==
    cpass >= EarlyPass /\ i + 1 >= EarlyPass

\* i is the 0-based loop index, n the number of claims
EarlyPassExit(cpass, i, n) ==
    cpass >= EarlyPass /\ i + 1 >= EarlyPass /\ n > EarlyPass + 2

\* EarlyFailExit taken at the first claim that is not SUPPORTED
EarlyFailExitOnFirstFailure(cfail, i, n) ==
    cfail >= 1 /\ n > EarlyFail + 2

\* EarlyFailExit without the condition on the length of the list
EarlyFailExitAnyLength(cfail, i, n) ==
    cfail >= EarlyFail /\ i + 1 >= EarlyFail

EarlyFailExit(cfail, i, n) ==
    cfail >= EarlyFail /\ i + 1 >= EarlyFail /\ n > EarlyFail + 2

\* Assumed with range(i + 2, len(claims)): one claim left without a result
AssumedFromNext(from, n, verdict, conf, expl) ==
    [k \in 1..(n - from) |->
        ClaimResult(BatchClaim(from + k), verdict, conf, "", expl)]

Assumed(from, n, verdict, conf, expl) ==
    [k \in 1..(n - from + 1) |->
        ClaimResult(BatchClaim(from + k - 1), verdict, conf, "", expl)]

BatchInit ==
    /\ b_pc = "loop"
    /\ b_nli \in UNION {[1..n -> PipelineRows] : n \in 0..MaxBatch}
    /\ b_i = 0
    /\ all_results = <<>>
    /\ consecutive_pass = 0
    /\ consecutive_fail = 0
    /\ b_exit = "none"
    /\ b_verified = <<>>
    /\ config = [faithfulness_threshold |-> DefaultThreshold,
                 failure_action |-> "flag",
                 max_claims_per_response |-> MaxClaimsPerResponse,
                 enable_confidence_check |-> TRUE, offline_mode |-> FALSE]
    /\ GuardIdle /\ RuleIdle /\ EngineIdle /\ AuditIdle /\ RestIdle

\* one pass of the loop: verify claim b_i (0-based), count, maybe exit early
BatchStep ==
    /\ b_pc = "loop"
    /\ b_i < Len(b_nli)
    /\ LET n == Len(b_nli)
           res == verify_claim_against_chunks(
                      BatchClaim(b_i + 1), BatchChunks, TRUE,
                      BatchPrediction(b_nli, b_i + 1))
           cpass == IF res.verdict = SUPPORTED THEN consecutive_pass + 1
                    ELSE 0
           cfail == IF res.verdict = SUPPORTED THEN 0
                    ELSE consecutive_fail + 1
       IN /\ consecutive_pass' = cpass
          /\ consecutive_fail' = cfail
          /\ b_verified' = Append(b_verified, b_i + 1)
          /\ IF EarlyPassExit(cpass, b_i, n) THEN
                 /\ all_results' = Append(all_results, res)
                        \o Assumed(b_i + 2, n, SUPPORTED, Pct(85),
                                   "Early-exit: assumed supported")
                 /\ b_exit' = "pass"
                 /\ b_i' = n
             ELSE IF EarlyFailExit(cfail, b_i, n) THEN
                 /\ all_results' = Append(all_results, res)
                        \o Assumed(b_i + 2, n, UNSUPPORTED, Rat(0, 1),
                                   "Early-exit: assumed unsupported")
                 /\ b_exit' = "fail"
                 /\ b_i' = n
             ELSE
                 /\ all_results' = Append(all_results, res)
                 /\ b_exit' = b_exit
                 /\ b_i' = b_i + 1
    /\ UNCHANGED <<b_pc, b_nli, gvars, rvars, evars, avars, nvars>>

BatchReturn ==
    /\ b_pc = "loop"
    /\ b_i = Len(b_nli)
    /\ b_pc' = "returned"
    /\ UNCHANGED <<b_nli, b_i, all_results, consecutive_pass,
                   consecutive_fail, b_exit, b_verified, gvars, rvars,
                   evars, avars, nvars>>

BatchNext == BatchStep \/ BatchReturn

SpecBatch == BatchInit /\ [][BatchNext]_vars

(***************************************************************************)
(* SpecEngine: one GroundedQueryEngine, one query() call.  An answer is    *)
(* the list of its claims, each claim a number; the fixed messages are     *)
(* answers of their own kind.  Whether the guard modules can be imported   *)
(* is found at construction.  extract_claims and score_response are the    *)
(* imported callables: the first gives the claims of the answer, the       *)
(* second any score and verdicts, or raises.                               *)
(***************************************************************************)
GuardActions == {"block", "flag", "strip"}
HitScores == {30, 50, 70}      \* retrieval scores, percent
MinScores == {50}              \* config.retrieval.min_score, percent
FallbackScores == {Rat(0, 1), Rat(1, 2), Rat(1, 1)}
FallbackVerdicts == {SUPPORTED, UNSUPPORTED, CONTRADICTED}

LLMText(n) == [kind |-> "llm_text", body |-> [j \in 1..n |-> j]]
Message(kind) == [kind |-> kind, body |-> <<>>]

GroundedQueryResult(answer, error, score, safe, blocked, method) ==
    [answer |-> answer, error |-> error,
     grounding_score |-> score,
     grounding_safe |-> safe,
     grounding_blocked |-> blocked,
     method |-> method]

\* the dataclass defaults of the grounding fields
DefaultGrounding(answer, error) ==
    GroundedQueryResult(answer, error, Rat(-1, 1), TRUE, FALSE, "none")

NoQueryResult == DefaultGrounding(Message("none"), "")
NoLLM == [ok |-> FALSE, claims |-> 0]

GroundedQueryEngine(enabled, imports_ok, action, min_chunks, min_score) ==
    [guard_enabled |-> enabled,
     guard_threshold |-> DefaultThreshold,
     guard_action |-> action,
     guard_min_chunks |-> min_chunks,
     guard_min_score |-> min_score,
     _guard_available |-> enabled /\ imports_ok,
     _nli_verifier |-> "None"]

\* score of the batch results, as _verify_response computes it
EngineScore(results) ==
    LET supported == Cardinality({i \in 1..Len(results) :
                                     results[i].verdict = SUPPORTED})
        total == Len(results)
    IN IF total > 0 THEN Rat(supported, total) ELSE Rat(0, 1)

\* Step 6 of query(): the answer shown and whether it was blocked
ApplyAction(eng, n, score, verdicts) ==
    IF ~RatGE(score, Pct(eng.guard_threshold)) THEN
        IF eng.guard_action = "block" THEN
            [answer |-> Message("cannot_verify"), blocked |-> TRUE]
        ELSE IF eng.guard_action = "strip" THEN
            LET verified == SelectSeq([j \in 1..Len(verdicts) |-> j],
                                LAMBDA j : verdicts[j] = SUPPORTED)
            IN IF verified # <<>>
               THEN [answer |-> [kind |-> "llm_text", body |-> verified],
                     blocked |-> FALSE]
               ELSE [answer |-> Message("no_verified_claims"),
                     blocked |-> TRUE]
        ELSE [answer |-> LLMText(n), blocked |-> FALSE]
    ELSE [answer |-> LLMText(n), blocked |-> FALSE]

Grounded(eng, n, score, verdicts, method) ==
    LET applied == ApplyAction(eng, n, score, verdicts)
    IN GroundedQueryResult(applied.answer, "", score,
                           RatGE(score, Pct(eng.guard_threshold)),
                           applied.blocked, method)

EngineInit ==
    /\ e_pc = "ready"
    /\ engine \in {GroundedQueryEngine(en, imp, act, mc, ms) :
                      en \in BOOLEAN, imp \in BOOLEAN,
                      act \in GuardActions, mc \in 1..MaxHits,
                      ms \in MinScores}
    /\ e_hits = <<>>
    /\ e_llm = NoLLM
    /\ e_result = NoQueryResult
    /\ config = [faithfulness_threshold |-> DefaultThreshold,
                 failure_action |-> "flag",
                 max_claims_per_response |-> MaxClaimsPerResponse,
                 enable_confidence_check |-> TRUE, offline_mode |-> FALSE]
    /\ GuardIdle /\ RuleIdle /\ BatchIdle /\ AuditIdle /\ RestIdle

\* fast path: the base result is copied, the grounding fields keep their
\* defaults
BaseQuery ==
    /\ e_pc = "ready"
    /\ ~engine.guard_enabled \/ ~engine._guard_available
    /\ \E n \in 0..MaxAnswerClaims, failed \in BOOLEAN :
          /\ e_llm' = [ok |-> ~failed, claims |-> IF failed THEN 0 ELSE n]
          /\ e_result' = IF failed
                         THEN DefaultGrounding(Message("base_error"),
                                               "base error")
                         ELSE DefaultGrounding(LLMText(n), "")
    /\ e_pc' = "returned"
    /\ UNCHANGED <<engine, e_hits, gvars, rvars, bvars, avars, nvars>>

Retrieve ==
    /\ e_pc = "ready"
    /\ engine.guard_enabled /\ engine._guard_available
    /\ \E raised \in BOOLEAN :
          IF raised THEN
              /\ e_result' = DefaultGrounding(Message("error_processing"),
                                              "exception")
              /\ e_pc' = "returned"
              /\ e_hits' = e_hits
          ELSE
              /\ e_hits' \in UNION {[1..n -> HitScores] : n \in 0..MaxHits}
              /\ e_pc' = "retrieved"
              /\ e_result' = e_result
    /\ UNCHANGED <<engine, e_llm, gvars, rvars, bvars, avars, nvars>>

\* the gate counting every hit, whatever its score
PassingAnyScore(eng, hits) == hits

Passing(eng, hits) == SelectSeq(hits, LAMBDA h : h >= eng.guard_min_score)

RetrievalGate ==
    /\ e_pc = "retrieved"
    /\ IF e_hits = <<>> THEN
           /\ e_result' = GroundedQueryResult(
                  Message("no_relevant_information"), "", Rat(-1, 1), TRUE,
                  TRUE, "no_search_results")
           /\ e_pc' = "returned"
       ELSE IF Len(Passing(engine, e_hits)) < engine.guard_min_chunks THEN
           /\ e_result' = GroundedQueryResult(
                  Message("insufficient_evidence"), "", Rat(-1, 1), TRUE,
                  TRUE, "insufficient_evidence")
           /\ e_pc' = "returned"
       ELSE
           /\ e_result' = e_result
           /\ e_pc' = "gated"
    /\ UNCHANGED <<engine, e_hits, e_llm, gvars, rvars, bvars, avars, nvars>>

CallLLM ==
    /\ e_pc = "gated"
    /\ \E n \in 0..MaxAnswerClaims, ok \in BOOLEAN :
          IF ok THEN
              /\ e_llm' = [ok |-> TRUE, claims |-> n]
              /\ e_pc' = "answered"
              /\ e_result' = e_result
          ELSE
              /\ e_llm' = NoLLM
              /\ e_pc' = "returned"
              /\ e_result' = DefaultGrounding(Message("error_calling_llm"),
                                              "LLM call failed")
    /\ UNCHANGED <<engine, e_hits, gvars, rvars, bvars, avars, nvars>>

\* Steps 5 and 6: _verify_response, then the action
VerifyAndApply ==
    /\ e_pc = "answered"
    /\ LET n == e_llm.claims
       IN IF n = 0 THEN
              e_result' = Grounded(engine, n, Rat(1, 1), <<>>, "no_claims")
          ELSE
              \E raised \in BOOLEAN :
                 IF raised THEN
                     e_result' = Grounded(engine, n, Rat(1, 2), <<>>, "error")
                 ELSE
                     \E score \in FallbackScores,
                        verdicts \in [1..n -> FallbackVerdicts] :
                        e_result' = Grounded(engine, n, score, verdicts,
                                             "score_response")
    /\ e_pc' = "returned"
    /\ UNCHANGED <<engine, e_hits, e_llm, gvars, rvars, bvars, avars, nvars>>

EngineNext ==
    \/ BaseQuery
    \/ Retrieve
    \/ RetrievalGate
    \/ CallLLM
    \/ VerifyAndApply

SpecEngine == EngineInit /\ [][EngineNext]_vars

(***************************************************************************)
(* SpecExtract: ClaimExtractor.extract_claims on one text.  The text is a  *)
(* row of segments: sentences, citation markers, abbreviations and the     *)
(* tokens that may follow an abbreviation.                                 *)
(***************************************************************************)
SentL == <<"uses", "band", "X.">>
SentG == <<"Gain", "is", "6", "dBi.">>
PlainSentences == {SentP, SentG}
Segments ==
    PlainSentences \cup {SentL}
        \cup {<<t>> : t \in {Cite1, Cite2, "MHz.", "etc.", "3", ",", "(see",
                              "'Radar"}}
ExtractorTexts ==
    {Flatten(ss) : ss \in UNION {[1..n -> Segments] : n \in 0..MaxSegments}}

DefaultConfig ==
    [faithfulness_threshold |-> DefaultThreshold,
     failure_action |-> "flag",
     max_claims_per_response |-> MaxClaimsPerResponse,
     enable_confidence_check |-> TRUE, offline_mode |-> FALSE,
     enable_audit_log |-> TRUE]

ExtractInit ==
    /\ x_pc = "called"
    /\ x_text \in ExtractorTexts
    /\ x_raw = <<>>
    /\ x_claims = <<>>
    /\ config = DefaultConfig
    /\ GuardIdle /\ RuleIdle /\ BatchIdle /\ EngineIdle /\ AuditIdle
    /\ ThreadsIdle /\ LoadIdle /\ CalibIdle /\ OtherIdle

\* split_into_sentences up to re.split: the raw pieces
SplitText ==
    /\ x_pc = "called"
    /\ x_raw' = RawPieces(x_text, 1, 1)
    /\ x_pc' = "split"
    /\ UNCHANGED <<x_text, x_claims>>
    /\ UNCHANGED <<gvars, rvars, bvars, evars, avars, tvars, lvars, cvars,
                   ovars>>

\* the pieces are stripped and filtered, each sentence becomes a claim
ExtractClaims ==
    /\ x_pc = "split"
    /\ x_claims' = extract_claims(x_text)
    /\ x_pc' = "done"
    /\ UNCHANGED <<x_text, x_raw>>
    /\ UNCHANGED <<gvars, rvars, bvars, evars, avars, tvars, lvars, cvars,
                   ovars>>

ExtractNext == SplitText \/ ExtractClaims

SpecExtract == ExtractInit /\ [][ExtractNext]_vars

(***************************************************************************)
(* SpecCalib: ConfidenceCalibrator.check_overconfidence on one claim.      *)
(***************************************************************************)
CalibWords ==
    {"Definitely", "always", "unproven", "may", "dismay", "Radar", "X."}
CalibTexts == UNION {[1..n -> CalibWords] : n \in 0..MaxWords}
Verdicts == {SUPPORTED, CONTRADICTED, UNSUPPORTED, TRIVIAL}

CalibInit ==
    /\ c_pc = "called"
    /\ c_text \in CalibTexts
    /\ c_verdict \in Verdicts
    /\ c_result = check_overconfidence(<<>>, TRIVIAL)
    /\ config = DefaultConfig
    /\ GuardIdle /\ RuleIdle /\ BatchIdle /\ EngineIdle /\ AuditIdle
    /\ ThreadsIdle /\ LoadIdle /\ ExtractIdle /\ OtherIdle

CheckOverconfidence ==
    /\ c_pc = "called"
    /\ c_result' = check_overconfidence(c_text, c_verdict)
    /\ c_pc' = "done"
    /\ UNCHANGED <<c_text, c_verdict>>
    /\ UNCHANGED <<gvars, rvars, bvars, evars, avars, tvars, lvars, xvars,
                   ovars>>

CalibNext == CheckOverconfidence

SpecCalib == CalibInit /\ [][CalibNext]_vars

(***************************************************************************)
(* SpecLoad: the first verification call of several threads, either on one *)
(* HallucinationGuard they share ("verifier") or each through get_guard(). *)
(* A guard is a number; l_loaded[g] is the _model_loaded flag of its       *)
(* NLIVerifier and l_loads[g] counts the CrossEncoder objects built for    *)
(* it.  A thread is a step of its own between reading a flag and writing   *)
(* it: nothing in the code holds a lock.                                   *)
(***************************************************************************)
Threads == 1..NumThreads
LoadModes == {"verifier", "get_guard"}

LoadInit ==
    /\ l_mode \in LoadModes
    /\ l_pc = [t \in Threads |->
                 IF l_mode = "verifier" THEN "load_model" ELSE "get_guard"]
    /\ guard_instance = 0
    /\ l_guard = [t \in Threads |-> IF l_mode = "verifier" THEN 1 ELSE 0]
    /\ l_loaded = [g \in Threads |-> FALSE]
    /\ l_loads = [g \in Threads |-> 0]
    /\ l_created = IF l_mode = "verifier" THEN 1 ELSE 0
    /\ config \in {[DefaultConfig EXCEPT !.offline_mode = o] : o \in BOOLEAN}
    /\ GuardIdle /\ RuleIdle /\ BatchIdle /\ EngineIdle /\ AuditIdle
    /\ ThreadsIdle /\ ExtractIdle /\ CalibIdle /\ OtherIdle

LoadOnly ==
    UNCHANGED <<gvars, rvars, bvars, evars, avars, tvars, xvars, cvars, ovars>>

\* get_guard: if _guard_instance is None
GetGuardTest(t) ==
    /\ l_pc[t] = "get_guard"
    /\ l_pc' = [l_pc EXCEPT ![t] = IF guard_instance = 0 THEN "create"
                                   ELSE "return_guard"]
    /\ UNCHANGED <<l_mode, guard_instance, l_guard, l_loaded, l_loads,
                   l_created>>
    /\ LoadOnly

\* get_guard: _guard_instance = HallucinationGuard(config)
CreateGuard(t) ==
    /\ l_pc[t] = "create"
    /\ l_created' = l_created + 1
    /\ guard_instance' = l_created + 1
    /\ l_pc' = [l_pc EXCEPT ![t] = "return_guard"]
    /\ UNCHANGED <<l_mode, l_guard, l_loaded, l_loads>>
    /\ LoadOnly

\* get_guard: return _guard_instance
ReturnGuard(t) ==
    /\ l_pc[t] = "return_guard"
    /\ l_guard' = [l_guard EXCEPT ![t] = guard_instance]
    /\ l_pc' = [l_pc EXCEPT ![t] = "load_model"]
    /\ UNCHANGED <<l_mode, guard_instance, l_loaded, l_loads, l_created>>
    /\ LoadOnly

\* load_model: if self._model_loaded: return True
LoadModelTest(t) ==
    /\ l_pc[t] = "load_model"
    /\ l_pc' = [l_pc EXCEPT ![t] = IF l_loaded[l_guard[t]] THEN "verifying"
                                   ELSE "loading"]
    /\ UNCHANGED <<l_mode, guard_instance, l_guard, l_loaded, l_loads,
                   l_created>>
    /\ LoadOnly

\* load_model: the cache check, CrossEncoder(...), _model_loaded = True
LoadModel(t) ==
    /\ l_pc[t] = "loading"
    /\ \E outcome \in LoadOutcomes(config) :
          LET g == l_guard[t]
              ok == load_model(FALSE, outcome)
          IN /\ l_loads' = [l_loads EXCEPT ![g] = IF ok THEN @ + 1 ELSE @]
             /\ l_loaded' = [l_loaded EXCEPT ![g] = IF ok THEN TRUE ELSE @]
    /\ l_pc' = [l_pc EXCEPT ![t] = "verifying"]
    /\ UNCHANGED <<l_mode, guard_instance, l_guard, l_created>>
    /\ LoadOnly

\* the rest of the call
FinishCall(t) ==
    /\ l_pc[t] = "verifying"
    /\ l_pc' = [l_pc EXCEPT ![t] = "done"]
    /\ UNCHANGED <<l_mode, guard_instance, l_guard, l_loaded, l_loads,
                   l_created>>
    /\ LoadOnly

LoadNext ==
    \E t \in Threads :
        \/ GetGuardTest(t)
        \/ CreateGuard(t)
        \/ ReturnGuard(t)
        \/ LoadModelTest(t)
        \/ LoadModel(t)
        \/ FinishCall(t)

SpecLoad == LoadInit /\ [][LoadNext]_vars

(***************************************************************************)
(* SpecAudit: the audit writes of verify() calls made by several callers   *)
(* on one log file.  The file is a row of pieces; a piece is a whole line  *)
(* or one of the two halves of a line.  How open(path, "a") appends is a   *)
(* matter of the platform and of the length of the line: one write at the  *)
(* end of the file, two such writes for a line longer than the buffer, or  *)
(* a seek to the end followed by a write at that place.  No caller waits   *)
(* for another: the code holds no lock.                                    *)
(***************************************************************************)
AppendModes == {"one_write", "two_writes", "seek_then_write"}
Piece(call, part) == [whole |-> part = "all", call |-> call, part |-> part]
ExistingRecord == Piece(0, "all")

AuditInit ==
    /\ a_append \in AppendModes
    /\ a_call \in [Threads -> BOOLEAN]      \* enable_audit_log of each call
    /\ a_pc = [t \in Threads |-> "verify"]
    /\ a_pos = [t \in Threads |-> 0]
    /\ audit_log = <<ExistingRecord>>
    /\ audit_outcome = "none"
    /\ config = DefaultConfig
    /\ GuardIdle /\ RuleIdle /\ BatchIdle /\ EngineIdle
    /\ LoadIdle /\ ExtractIdle /\ CalibIdle /\ OtherIdle

AuditOnly ==
    UNCHANGED <<gvars, rvars, bvars, evars, lvars, xvars, cvars, ovars,
                audit_outcome, a_call, a_append>>

\* verify() up to: if self.config.enable_audit_log
FinishVerify(t) ==
    /\ a_pc[t] = "verify"
    /\ a_pc' = [a_pc EXCEPT ![t] = IF a_call[t] THEN "open" ELSE "done"]
    /\ UNCHANGED <<audit_log, a_pos>>
    /\ AuditOnly

\* os.makedirs, the entry, open(path, "a")
OpenLog(t) ==
    /\ a_pc[t] = "open"
    /\ a_pc' = [a_pc EXCEPT ![t] = "opened"]
    /\ UNCHANGED <<audit_log, a_pos>>
    /\ AuditOnly

\* f.write and close: the line goes to the end of the file in one write
AppendWrite(t) ==
    /\ a_pc[t] = "opened"
    /\ a_append = "one_write"
    /\ audit_log' = _write_audit_log(audit_log, Piece(t, "all"), "ok").log
    /\ a_pc' = [a_pc EXCEPT ![t] = "done"]
    /\ UNCHANGED a_pos
    /\ AuditOnly

\* a line longer than the buffer: its first part goes to the end of the file
AppendFirst(t) ==
    /\ a_pc[t] = "opened"
    /\ a_append = "two_writes"
    /\ audit_log' = Append(audit_log, Piece(t, "first"))
    /\ a_pc' = [a_pc EXCEPT ![t] = "half"]
    /\ UNCHANGED a_pos
    /\ AuditOnly

\* ... and the rest of the line in a second write
AppendSecond(t) ==
    /\ a_pc[t] = "half"
    /\ audit_log' = Append(audit_log, Piece(t, "second"))
    /\ a_pc' = [a_pc EXCEPT ![t] = "done"]
    /\ UNCHANGED a_pos
    /\ AuditOnly

\* append mode made of a seek and a write: the seek
SeekEnd(t) ==
    /\ a_pc[t] = "opened"
    /\ a_append = "seek_then_write"
    /\ a_pos' = [a_pos EXCEPT ![t] = Len(audit_log)]
    /\ a_pc' = [a_pc EXCEPT ![t] = "sought"]
    /\ UNCHANGED audit_log
    /\ AuditOnly

\* ... and the write at the place found
WriteAtPos(t) ==
    /\ a_pc[t] = "sought"
    /\ audit_log' =
          IF a_pos[t] < Len(audit_log)
          THEN [audit_log EXCEPT ![a_pos[t] + 1] = Piece(t, "all")]
          ELSE Append(audit_log, Piece(t, "all"))
    /\ a_pc' = [a_pc EXCEPT ![t] = "done"]
    /\ UNCHANGED a_pos
    /\ AuditOnly

AuditNext ==
    \E t \in Threads :
        \/ FinishVerify(t)
        \/ OpenLog(t)
        \/ AppendWrite(t)
        \/ AppendFirst(t)
        \/ AppendSecond(t)
        \/ SeekEnd(t)
        \/ WriteAtPos(t)

SpecAudit == AuditInit /\ [][AuditNext]_vars

(***************************************************************************)
(* Properties of verify() (Spec).                                          *)
(***************************************************************************)
Returned == pc = "returned"
BelowThreshold ==
    ~RatGE(result.faithfulness_score, Pct(config.faithfulness_threshold))
HasVerdict(rs, v) == \E i \in 1..Len(rs) : rs[i].verdict = v
NumVerdict(rs, vs) == Cardinality({i \in 1..Len(rs) : rs[i].verdict \in vs})
Marks == {ContradictedMark, UnverifiedMark}
Unmarked(s) == SelectSeq(s, LAMBDA t : t \notin Marks)

\* C1: a result with a CONTRADICTED claim is never safe, whatever the score
\* and the threshold; without one, is_safe is exactly score >= threshold.
C1_ZeroTolerance ==
    Returned =>
        LET rs == result.claim_results
        IN /\ HasVerdict(rs, CONTRADICTED) => ~result.is_safe
           /\ ~HasVerdict(rs, CONTRADICTED) =>
                 (result.is_safe <=> ~BelowThreshold)

\* a contradiction decides against a score that reaches the threshold
C1_Witness ==
    /\ Returned
    /\ HasVerdict(result.claim_results, CONTRADICTED)
    /\ HasVerdict(result.claim_results, SUPPORTED)
    /\ config.faithfulness_threshold > 0
    /\ ~BelowThreshold
    /\ ~result.is_safe

C5_VacuousTruth ==
    (Returned /\ \A i \in 1..Len(claims) : claims[i].is_trivial) =>
        /\ result.faithfulness_score = Rat(1, 1)
        /\ result.is_safe

\* an answer of one non-factual sentence, no passages, action block
C5_Witness ==
    /\ Returned
    /\ claims # <<>>
    /\ \A i \in 1..Len(claims) : claims[i].is_trivial
    /\ source_chunks = <<>>
    /\ config.failure_action = "block"
    /\ config.faithfulness_threshold = DefaultThreshold
    /\ result.is_safe

RECURSIVE PieceStarts(_, _, _)
PieceStarts(text, from, i) ==
    IF i > Len(text) THEN (IF from > Len(text) THEN <<>> ELSE <<from>>)
    ELSE IF SplitsAfter(text, i) THEN
        <<from>> \o PieceStarts(text, i + 1, i + 1)
    ELSE PieceStarts(text, from, i + 1)

\* where sentence k (claim k) starts in the text
SentenceStarts(text) ==
    LET ps == RawPieces(text, 1, 1)
        st == PieceStarts(text, 1, 1)
        kept == SelectSeq([j \in 1..Len(ps) |-> j],
                          LAMBDA j : KeepPiece(ps[j]))
    IN [k \in 1..Len(kept) |-> st[kept[k]]]

\* where the span of claim k starts: its clean text inside its sentence
SpanStart(text, cs, k) ==
    LET at == Find(cs[k].original_text, cs[k].text)
    IN SentenceStarts(text)[k] + (IF at = 0 THEN 0 ELSE at - 1)

MarkOf(verdict) ==
    IF verdict = CONTRADICTED THEN <<ContradictedMark>>
    ELSE IF verdict = UNSUPPORTED THEN <<UnverifiedMark>>
    ELSE <<>>

\* the text with the mark of each claim put before the claim's span
RECURSIVE MarkedInPlace(_, _, _, _)
MarkedInPlace(text, cs, rs, p) ==
    IF p > Len(text) THEN <<>>
    ELSE
        LET here == {k \in 1..Len(cs) : SpanStart(text, cs, k) = p}
            mark == IF here = {} THEN <<>>
                    ELSE MarkOf(rs[CHOOSE k \in here : TRUE].verdict)
        IN mark \o <<text[p]>> \o MarkedInPlace(text, cs, rs, p + 1)

\* C8: below the threshold with action flag, every CONTRADICTED or
\* UNSUPPORTED claim's span is prefixed in place by its mark, SUPPORTED and
\* TRIVIAL claims get none, and the text around is preserved.
C8_FlagMarksEachSpan ==
    (Returned /\ BelowThreshold /\ config.failure_action = "flag") =>
        result.safe_response =
            MarkedInPlace(result.original_response, claims,
                          result.claim_results, 1)

\* C9: below the threshold with action strip, the output is the sentences
\* whose cleaned text is not the text of a CONTRADICTED or UNSUPPORTED
\* claim, in order, then the note with the number removed when it is
\* positive; it is the fixed message when no sentence remains.
RECURSIVE JoinKept(_, _, _)
JoinKept(sents, keep, i) ==
    IF i > Len(sents) THEN <<>>
    ELSE (IF i \in keep THEN sents[i] ELSE <<>>)
         \o JoinKept(sents, keep, i + 1)

C9_StripRemovesUnverified ==
    (Returned /\ BelowThreshold /\ config.failure_action = "strip") =>
        LET sents == split_into_sentences(result.original_response)
            rs == result.claim_results
            IsBad(s) == \E i \in 1..Len(rs) :
                           /\ rs[i].verdict \in {CONTRADICTED, UNSUPPORTED}
                           /\ rs[i].claim_text = CleanSentence(s)
            keep == {i \in 1..Len(sents) : ~IsBad(sents[i])}
            removed == Len(sents) - Cardinality(keep)
            out == result.safe_response
        IN IF keep = {} THEN out = AllUnverifiedMsg
           ELSE /\ removed > 0 =>
                      out = JoinKept(sents, keep, 1)
                               \o <<RemovedNote(removed)>>
                /\ removed = 0 => out = JoinKept(sents, keep, 1)

\* one sentence is removed, one is kept, the note counts one
C9_Witness ==
    /\ Returned
    /\ BelowThreshold
    /\ config.failure_action = "strip"
    /\ HasVerdict(result.claim_results, UNSUPPORTED)
    /\ HasVerdict(result.claim_results, SUPPORTED)
    /\ Len(result.safe_response) > 1
    /\ result.safe_response[Len(result.safe_response)] = RemovedNote(1)

\* C10: below the threshold with action warn, the output is one header
\* followed by the original: the header occurs once and the original is
\* the unchanged suffix.
C10_WarnHeaderOnce ==
    (Returned /\ BelowThreshold /\ config.failure_action = "warn") =>
        LET out == result.safe_response
            orig == result.original_response
        IN /\ Count(out, WarnTitle) = 1
           /\ Len(out) >= Len(orig)
           /\ SubSeq(out, Len(out) - Len(orig) + 1, Len(out)) = orig

(***************************************************************************)
(* Properties of the decision rule (SpecRule).                             *)
(***************************************************************************)
RowSum(i) == r_rows[i][1] + r_rows[i][2] + r_rows[i][3]
ConOf(i) == Rat(r_rows[i][1], RowSum(i))   \* contradiction probability
EntOf(i) == Rat(r_rows[i][2], RowSum(i))   \* entailment probability
IsMaxCon(i) == \A j \in 1..Len(r_rows) : RatGE(ConOf(i), ConOf(j))
IsMaxEnt(i) == \A j \in 1..Len(r_rows) : RatGE(EntOf(i), EntOf(j))

C3_BoundaryContradiction ==
    /\ r_pc = "returned"
    /\ \E i \in 1..Len(r_rows) : IsMaxCon(i) /\ RatEQ(ConOf(i), Pct(70))
    /\ r_result.verdict = UNSUPPORTED
    /\ RatEQ(r_result.confidence, Pct(70))

C3_BoundaryEntailment ==
    /\ r_pc = "returned"
    /\ \E i \in 1..Len(r_rows) : IsMaxEnt(i) /\ RatEQ(EntOf(i), Pct(50))
    /\ r_result.verdict = UNSUPPORTED
    /\ RatEQ(r_result.confidence, Pct(50))

(***************************************************************************)
(* Properties of the batch (SpecBatch).                                    *)
(***************************************************************************)
\* the decision of verify() on a list of results
GuardSafe(results, threshold) ==
    SafetyDecision(results, FaithScore(results), threshold)
\* the decision of the engine on a list of results
EngineSafe(results, threshold) ==
    RatGE(EngineScore(results), Pct(threshold))

FirstSupported ==
    /\ Len(b_nli) >= EarlyPass
    /\ \A j \in 1..EarlyPass : Individually(b_nli)[j].verdict = SUPPORTED

SameDecision(threshold) ==
    /\ GuardSafe(all_results, threshold)
          <=> GuardSafe(Individually(b_nli), threshold)
    /\ EngineSafe(all_results, threshold)
          <=> EngineSafe(Individually(b_nli), threshold)

\* C6 as stated: when the first five claims are individually SUPPORTED,
\* the decision from the batch results is the decision from the claims
\* verified one by one.
C6_EarlyExitEquivalence ==
    (b_pc = "returned" /\ FirstSupported) =>
        \A threshold \in Thresholds : SameDecision(threshold)

\* C6 amended: with at most early_pass + 2 claims the two decisions are
\* the same; with more, the batch leaves after the fifth claim, takes the
\* rest as SUPPORTED and decides safe.
C6_EarlyExitBounded ==
    (b_pc = "returned" /\ FirstSupported) =>
        \A threshold \in Thresholds :
           IF Len(b_nli) <= EarlyPass + 2
           THEN /\ b_exit = "none"
                /\ SameDecision(threshold)
           ELSE /\ b_exit = "pass"
                /\ \A j \in 1..Len(all_results) :
                      all_results[j].verdict = SUPPORTED
                /\ GuardSafe(all_results, threshold)
                /\ EngineSafe(all_results, threshold)

\* eight claims, the sixth contradicted: the batch decides safe, the
\* claims one by one do not
C6_Witness ==
    /\ b_pc = "returned"
    /\ FirstSupported
    /\ Len(b_nli) = EarlyPass + 3
    /\ b_exit = "pass"
    /\ Individually(b_nli)[EarlyPass + 1].verdict = CONTRADICTED
    /\ GuardSafe(all_results, DefaultThreshold)
    /\ ~GuardSafe(Individually(b_nli), DefaultThreshold)

(***************************************************************************)
(* Properties of the engine (SpecEngine).                                  *)
(***************************************************************************)
\* C2: with the guard enabled and its modules not importable, an answer
\* with a checkable claim is not reported safe and is not returned as the
\* generator wrote it.
C2_DegradedNeverSafe ==
    (/\ e_pc = "returned"
     /\ engine.guard_enabled
     /\ ~engine._guard_available
     /\ e_llm.ok
     /\ e_llm.claims > 0) =>
        /\ ~e_result.grounding_safe
        /\ e_result.answer # LLMText(e_llm.claims)

(***************************************************************************)
(* More properties of verify() (Spec).                                     *)
(***************************************************************************)
\* C11: in flag mode, build_safe_response applied to its own output with
\* the same claim results and score returns that output unchanged.
C11_FlagIdempotent ==
    (Returned /\ config.failure_action = "flag") =>
        build_safe_response(result.safe_response, result.claim_results,
                            result.faithfulness_score, config)
            = result.safe_response

Unavailable == env \in {"no_cache", "encoder_fails"}
NonTrivial(i) == ~claims[i].is_trivial

\* C12: when the model cannot be loaded or no passage is given, every
\* non-trivial claim is UNSUPPORTED with confidence 0 and a note saying
\* why, and verify() goes on to its result.
C12_DegradesToUnsupported ==
    /\ (Returned /\ (Unavailable \/ source_chunks = <<>>)) =>
          \A i \in 1..Len(claims) :
             NonTrivial(i) =>
                /\ claim_results[i].verdict = UNSUPPORTED
                /\ claim_results[i].confidence = Rat(0, 1)
                /\ Unavailable =>
                      Find(<<claim_results[i].explanation>>,
                           <<"NLI model not available">>) = 1
                /\ ~Unavailable =>
                      Find(<<claim_results[i].explanation>>,
                           <<"No source chunks provided">>) = 1
    /\ pc # "raised"

\* the model cannot be loaded, passages are given, two claims to check
C12_Witness ==
    /\ Returned
    /\ Unavailable
    /\ source_chunks # <<>>
    /\ Cardinality({i \in 1..Len(claims) : NonTrivial(i)}) = 2
    /\ result.unsupported_count = 2

RaisedFor(i) ==
    /\ NonTrivial(i)
    /\ claims[i].text \in DOMAIN nli_memo
    /\ nli_memo[claims[i].text].raised

\* the verdict the rows of one prediction give, passage by passage
RowsVerdict(rows) ==
    IF \E k \in 1..Len(rows) :
          10 * rows[k][1] > 7 * (rows[k][1] + rows[k][2] + rows[k][3])
    THEN CONTRADICTED
    ELSE IF \E k \in 1..Len(rows) :
          2 * rows[k][2] > rows[k][1] + rows[k][2] + rows[k][3]
    THEN SUPPORTED
    ELSE UNSUPPORTED

\* C13: a claim whose prediction raised is UNSUPPORTED with confidence 0
\* and the exception message in its explanation; verify() does not raise;
\* every other claim has the verdict of its own prediction.
C13_FailureIsolation ==
    /\ pc # "raised"
    /\ (pc \in {"verified", "calibrated", "constructed", "returned"}
        /\ model_loaded /\ source_chunks # <<>>) =>
          \A i \in 1..Len(claims) :
             /\ RaisedFor(i) =>
                   /\ claim_results[i].verdict = UNSUPPORTED
                   /\ claim_results[i].confidence = Rat(0, 1)
                   /\ \E e \in PredictErrors :
                         claim_results[i].explanation = "NLI error: " \o e
             /\ (NonTrivial(i) /\ ~RaisedFor(i)) =>
                   claim_results[i].verdict =
                      RowsVerdict(nli_memo[claims[i].text].scores)

\* the prediction raised for one claim, the other claim is SUPPORTED
C13_Witness ==
    /\ Returned
    /\ Len(claims) = 2
    /\ \E i, j \in 1..2 :
          /\ RaisedFor(i)
          /\ NonTrivial(j) /\ ~RaisedFor(j)
          /\ claim_results[i].verdict = UNSUPPORTED
          /\ claim_results[j].verdict = SUPPORTED

WriteFailed == audit_outcome \in WriteOutcomes \ {"ok"}

\* C16: when the audit write fails at any step, verify() still returns, and
\* what it returns is the result built before the write: the same is_safe,
\* score and safe response as with a successful write.
C16_AuditFailureContained ==
    /\ pc # "raised"
    /\ (Returned /\ WriteFailed) =>
          /\ result = GuardResult(llm_response, claim_results, faith_score,
                                  config)
          /\ result.is_safe = SafetyDecision(claim_results, faith_score,
                                             config.faithfulness_threshold)
          /\ result.faithfulness_score = FaithScore(claim_results)

\* the file could not be opened for an answer that is not safe
C16_Witness ==
    /\ Returned
    /\ audit_outcome = "open_fails"
    /\ audit_log = <<>>
    /\ ~result.is_safe
    /\ result.total_claims > 0

(***************************************************************************)
(* More properties of the batch (SpecBatch).                               *)
(***************************************************************************)
\* the verdicts of the claims verified one by one
Alone(j) == Individually(b_nli)[j].verdict

\* the run of SUPPORTED (sup) or of other (~sup) verdicts that ends at j
RECURSIVE Run(_, _)
Run(j, sup) ==
    IF j = 0 \/ ((Alone(j) = SUPPORTED) # sup) THEN 0
    ELSE 1 + Run(j - 1, sup)

PassRunAt(j) == Run(j, TRUE) >= EarlyPass /\ Len(b_nli) > EarlyPass + 2
FailRunAt(j, anyLength) ==
    /\ Run(j, FALSE) >= EarlyFail
    /\ (anyLength \/ Len(b_nli) > EarlyFail + 2)

\* the positions at which a run is reached
ExitPoints(anyLength) ==
    {j \in 1..Len(b_nli) : PassRunAt(j) \/ FailRunAt(j, anyLength)}

FirstExit(anyLength) ==
    CHOOSE j \in ExitPoints(anyLength) :
        \A k \in ExitPoints(anyLength) : j <= k

\* the list the batch is to return, and the claims the model is to see
TrackedRuns(anyLength) ==
    IF ExitPoints(anyLength) = {} THEN
        /\ all_results = Individually(b_nli)
        /\ b_verified = [j \in 1..Len(b_nli) |-> j]
        /\ b_exit = "none"
    ELSE
        LET x == FirstExit(anyLength)
        IN /\ Len(all_results) = Len(b_nli)
           /\ b_verified = [j \in 1..x |-> j]
           /\ \A j \in 1..x : all_results[j] = Individually(b_nli)[j]
           /\ b_exit = IF PassRunAt(x) THEN "pass" ELSE "fail"
           /\ \A j \in (x + 1)..Len(b_nli) :
                 /\ all_results[j].claim_text = BatchClaim(j)
                 /\ Find(<<all_results[j].explanation>>,
                         <<IF PassRunAt(x) THEN "Early-exit: assumed supported"
                           ELSE "Early-exit: assumed unsupported">>) = 1
                 /\ all_results[j].verdict =
                       IF PassRunAt(x) THEN SUPPORTED ELSE UNSUPPORTED
                 /\ all_results[j].confidence =
                       IF PassRunAt(x) THEN Pct(85) ELSE Rat(0, 1)

\* the model is asked for the claims in order, and for none after an exit
InOrderUntilExit ==
    /\ b_verified = [j \in 1..Len(b_verified) |-> j]
    /\ b_exit # "none" => b_i = Len(b_nli)

C17_ShortBatch ==
    /\ b_pc = "returned"
    /\ Len(b_nli) = EarlyFail + 1
    /\ Run(EarlyFail, FALSE) = EarlyFail
    /\ b_exit = "none"
    /\ Len(b_verified) = EarlyFail + 1

(***************************************************************************)
(* Properties of the extractor (SpecExtract).                              *)
(***************************************************************************)
HasMarker(s) ==
    \E i \in 1..Len(s) : s[i] \in CitationTokens \cup {UnsourcedTag}

\* the answer of the citation check: sentence, marker 1, sentence, marker 2
TwoCited(text) ==
    \E s1, s2 \in PlainSentences :
        text = s1 \o <<Cite1>> \o s2 \o <<Cite2>>

\* C18: the claims of "sentence marker-1 sentence marker-2" carry the
\* 0-based indices [0] and [1], and no cleaned claim text holds a citation
\* marker or the unsourced tag.
C18_CitationRoundTrip ==
    x_pc = "done" =>
        /\ \A k \in 1..Len(x_claims) : ~HasMarker(x_claims[k].text)
        /\ TwoCited(x_text) =>
              /\ Len(x_claims) >= 2
              /\ x_claims[1].cited_chunks = <<0>>
              /\ x_claims[2].cited_chunks = <<1>>

\* what the extractor does with that answer: the first claim has no
\* citation, the second has number 1, a third empty claim has number 2
C18_MarkersMoveOn ==
    /\ x_pc = "done"
    /\ TwoCited(x_text)
    /\ Len(x_claims) = 3
    /\ x_claims[1].cited_chunks = <<>>
    /\ x_claims[2].cited_chunks = <<1>>
    /\ x_claims[3].cited_chunks = <<2>>
    /\ x_claims[3].text = <<>>

\* the places after which a raw piece ends
RECURSIVE Boundaries(_, _)
Boundaries(pieces, at) ==
    IF pieces = <<>> THEN {}
    ELSE {at + Len(Head(pieces))}
             \cup Boundaries(Tail(pieces), at + Len(Head(pieces)))

SplitPoints == Boundaries(x_raw, 0) \ {Len(x_text)}

\* s is t with some elements left out, the order kept
RECURSIVE IsSubSeq(_, _)
IsSubSeq(s, t) ==
    IF s = <<>> THEN TRUE
    ELSE IF t = <<>> THEN FALSE
    ELSE IF Head(s) = Head(t) THEN IsSubSeq(Tail(s), Tail(t))
    ELSE IsSubSeq(s, Tail(t))

Sentences(cs) == [k \in 1..Len(cs) |-> cs[k].original_text]

NumMarkers == Cardinality(MarkersFound(c_text))
Hedged == HedgesFound(c_text) # {}

\* C20: severity is high for CONTRADICTED and for UNSUPPORTED with two or
\* more markers, medium for UNSUPPORTED with one marker, low for
\* UNSUPPORTED without marker, none for SUPPORTED and TRIVIAL;
\* is_overconfident iff the verdict is UNSUPPORTED or CONTRADICTED, a
\* marker is present and no hedge is present.
C20_SeverityLadder ==
    c_pc = "done" =>
        /\ c_verdict = CONTRADICTED => c_result.severity = "high"
        /\ (c_verdict = UNSUPPORTED /\ NumMarkers >= 2) =>
              c_result.severity = "high"
        /\ (c_verdict = UNSUPPORTED /\ NumMarkers = 1) =>
              c_result.severity = "medium"
        /\ (c_verdict = UNSUPPORTED /\ NumMarkers = 0) =>
              c_result.severity = "low"
        /\ c_verdict \in {SUPPORTED, TRIVIAL} => c_result.severity = "none"
        /\ c_result.is_overconfident <=>
              /\ c_verdict \in {UNSUPPORTED, CONTRADICTED}
              /\ NumMarkers >= 1
              /\ ~Hedged

\* what the calibrator does with a hedged claim: an UNSUPPORTED claim with
\* two markers and a hedge is rated low
C20_HedgedIsLow ==
    /\ c_pc = "done"
    /\ c_verdict = UNSUPPORTED
    /\ NumMarkers >= 2
    /\ Hedged
    /\ c_result.severity = "low"

\* the ladder on the claims without a hedge, and low for every hedged
\* UNSUPPORTED claim
C20_LadderWithoutHedge ==
    c_pc = "done" =>
        /\ c_verdict = CONTRADICTED => c_result.severity = "high"
        /\ (c_verdict = UNSUPPORTED /\ ~Hedged /\ NumMarkers >= 2) =>
              c_result.severity = "high"
        /\ (c_verdict = UNSUPPORTED /\ ~Hedged /\ NumMarkers = 1) =>
              c_result.severity = "medium"
        /\ (c_verdict = UNSUPPORTED /\ (Hedged \/ NumMarkers = 0)) =>
              c_result.severity = "low"
        /\ c_verdict \in {SUPPORTED, TRIVIAL} => c_result.severity = "none"

(***************************************************************************)
(* Properties of the first use (SpecLoad).                                 *)
(***************************************************************************)
RECURSIVE SumSeq(_)
SumSeq(q) == IF q = <<>> THEN 0 ELSE Head(q) + SumSeq(Tail(q))

\* C14: whatever the threads do, the model is loaded at most once and at
\* most one guard exists.
C14_SingleInitialization ==
    l_mode \in LoadModes =>
        /\ SumSeq(l_loads) <= 1
        /\ l_created <= 1

\* two threads have each built the model for the guard they share
C14_LoadedTwice ==
    /\ l_mode = "verifier"
    /\ l_loads[1] = NumThreads
    /\ \A t \in Threads : l_pc[t] = "done"

\* two threads have each made a guard through get_guard()
C14_TwoGuards ==
    /\ l_mode = "get_guard"
    /\ l_created = NumThreads
    /\ \A t \in Threads : l_pc[t] = "done"

\* one thread after the other: one load, one guard
C14_Sequential ==
    /\ l_mode = "get_guard"
    /\ \A t \in Threads : l_pc[t] = "done"
    /\ l_created = 1
    /\ SumSeq(l_loads) = 1

(***************************************************************************)
(* Properties of the audit log (SpecAudit).                                *)
(***************************************************************************)
\* the whole records of call c in the file: a whole line, or the two
\* halves of a line next to each other
RecordsOf(c) ==
    {i \in 1..Len(audit_log) :
        \/ audit_log[i] = Piece(c, "all")
        \/ /\ audit_log[i] = Piece(c, "first")
           /\ i < Len(audit_log)
           /\ audit_log[i + 1] = Piece(c, "second")}

AllDone == \A t \in Threads : a_pc[t] = "done"

\* C15: the record that was in the file stays at its place; every
\* completed call made with the audit log enabled has exactly one whole
\* record after it, a call with the audit log disabled has none.
C15_OneRecordPerCall ==
    a_append \in AppendModes =>
        /\ audit_log # <<>> /\ audit_log[1] = ExistingRecord
        /\ \A t \in Threads :
              a_pc[t] = "done" =>
                 Cardinality(RecordsOf(t)) = (IF a_call[t] THEN 1 ELSE 0)

\* both callers are done and the first line written is gone: the second
\* caller wrote at the place the first had found
C15_RecordOverwritten ==
    /\ AllDone
    /\ \A t \in Threads : a_call[t]
    /\ Len(audit_log) = 2
    /\ \E t \in Threads : RecordsOf(t) = {}

\* both callers are done and the halves of their lines are mixed
C15_RecordSplit ==
    /\ AllDone
    /\ a_append = "two_writes"
    /\ \E t \in Threads : a_call[t] /\ RecordsOf(t) = {}

\* with one write per line every completed call has its record
C15_AtomicAppend ==
    /\ AllDone
    /\ a_append = "one_write"
    /\ \A t \in Threads : a_call[t] /\ Cardinality(RecordsOf(t)) = 1
    /\ Len(audit_log) = NumThreads + 1

(***************************************************************************)
(* Invariants of the result of verify() (Spec).                            *)
(***************************************************************************)
\* list holds the texts of the results with verdict v, in their order
TextsInOrder(list, rs, v) ==
    /\ Len(list) = NumVerdict(rs, {v})
    /\ \E f \in [1..Len(list) -> 1..Len(rs)] :
          /\ \A j, k \in 1..Len(list) : j < k => f[j] < f[k]
          /\ \A k \in 1..Len(list) :
                /\ rs[f[k]].verdict = v
                /\ list[k] = rs[f[k]].claim_text

\* C30: the four counts add up to total_claims, which is the length of
\* claim_results; contradictions and unverified_claims are the texts of
\* the CONTRADICTED and of the UNSUPPORTED results, in order.
C30_CountsAddUp ==
    pc \in {"constructed", "returned"} =>
        /\ result.claim_results = claim_results
        /\ result.total_claims = Len(result.claim_results)
        /\ result.supported_count + result.contradicted_count
              + result.unsupported_count + result.trivial_count
                 = result.total_claims
        /\ result.supported_count = NumVerdict(claim_results, {SUPPORTED})
        /\ result.contradicted_count
              = NumVerdict(claim_results, {CONTRADICTED})
        /\ result.unsupported_count
              = NumVerdict(claim_results, {UNSUPPORTED})
        /\ result.trivial_count = NumVerdict(claim_results, {TRIVIAL})
        /\ TextsInOrder(result.contradictions, claim_results, CONTRADICTED)
        /\ TextsInOrder(result.unverified_claims, claim_results, UNSUPPORTED)

\* a trivial sentence and a contradicted claim
C30_Witness ==
    /\ Returned
    /\ result.total_claims = 2
    /\ result.trivial_count = 1
    /\ result.contradicted_count = 1
    /\ Len(result.contradictions) = 1

\* C28: a result reported safe carries the answer as it was given.
C28_SafeMeansUnaltered ==
    (pc \in {"constructed", "returned"} /\ result.is_safe) =>
        result.safe_response = result.original_response

\* a safe answer with a supported claim, under the block action
C28_Witness ==
    /\ Returned
    /\ result.is_safe
    /\ config.failure_action = "block"
    /\ result.supported_count > 0
    /\ result.original_response = llm_response
    /\ result.safe_response = llm_response

\* C27: verify_batch_with_earlyexit returns one result per claim given, the
\* i-th result carrying the text of the i-th claim, whether the loop ran to
\* its end or left early; once an exit is taken the loop is over, so a batch
\* has at most one early exit.
C27_OneResultPerClaim ==
    /\ b_exit # "none" => b_i = Len(b_nli)
    /\ b_pc = "returned" =>
          /\ Len(all_results) = Len(b_nli)
          /\ \A j \in 1..Len(b_nli) : all_results[j].claim_text = BatchClaim(j)

C27_Witness ==
    /\ b_pc = "returned"
    /\ b_exit = "pass"
    /\ Len(b_verified) = EarlyPass
    /\ Len(b_nli) = EarlyPass + 3
    /\ all_results[EarlyPass + 3].claim_text = BatchClaim(EarlyPass + 3)

\* C29: with early_pass 5 and early_fail 3, whenever the fail exit is taken
\* the SUPPORTED results are less than 80% of the returned list.
C29_FailExitBelowThreshold ==
    (b_pc = "returned" /\ b_exit = "fail") =>
        NumVerdict(all_results, {SUPPORTED}) * 100
            < DefaultThreshold * Len(all_results)

C29_Witness ==
    /\ b_pc = "returned"
    /\ b_exit = "fail"
    /\ Len(b_nli) = EarlyFail + 4
    /\ NumVerdict(all_results, {SUPPORTED}) = 4

\* what query() returns for the batch results of _verify_response: the score
\* is supported / total, Step 6 looks at the score alone
QueryOutcome(action) ==
    Grounded(GroundedQueryEngine(TRUE, TRUE, action, 1, 50), Len(all_results),
             EngineScore(all_results),
             [j \in 1..Len(all_results) |-> all_results[j].verdict],
             "nli_batch_earlyexit")

GuardActive == engine.guard_enabled /\ engine._guard_available
GatePassed ==
    /\ e_hits # <<>>
    /\ Cardinality({i \in 1..Len(e_hits) :
                        e_hits[i] >= engine.guard_min_score})
          >= engine.guard_min_chunks
LLMCalled == e_llm.ok \/ e_result.error = "LLM call failed"
RetrievalReturned == e_result.error # "exception"

\* C26: with the guard active the generator is called only once the
\* retrieval gate has passed; when retrieval returns nothing, or fewer than
\* min_chunks hits with score >= the minimum score, the call returns the
\* fixed no-evidence or insufficient-evidence answer with grounding_blocked
\* true and the generator has not been called.
C26_GateBeforeLLM ==
    GuardActive =>
        /\ e_pc \in {"gated", "answered"} => GatePassed
        /\ (e_pc = "returned" /\ LLMCalled) => GatePassed
        /\ (e_pc = "returned" /\ RetrievalReturned /\ ~GatePassed) =>
              /\ ~LLMCalled
              /\ e_llm = NoLLM
              /\ e_result.grounding_blocked
              /\ e_result.answer =
                    IF e_hits = <<>> THEN Message("no_relevant_information")
                    ELSE Message("insufficient_evidence")

\* two hits, one of them at the minimum score, two required
C26_Witness ==
    /\ GuardActive
    /\ e_pc = "returned"
    /\ Len(e_hits) = 2
    /\ Len(Passing(engine, e_hits)) = 1
    /\ e_hits[1] = engine.guard_min_score
    /\ engine.guard_min_chunks = 2
    /\ e_result.answer = Message("insufficient_evidence")
    /\ e_result.grounding_blocked
    /\ e_llm = NoLLM

(***************************************************************************)
(* The cap on the claims and the cost of a verify() call (SpecCap).        *)
(***************************************************************************)
Extracted == extract_claims(llm_response)
Kept ==
    IF Len(Extracted) > config.max_claims_per_response
    THEN config.max_claims_per_response ELSE Len(Extracted)
NonTrivialUpTo(n) == Cardinality({i \in 1..n : ~Extracted[i].is_trivial})

\* C24: verify() works on the first max_claims_per_response extracted
\* claims, in order: claim_results has their results, total_claims is at
\* most the cap, the score and is_safe are those of the kept results, and
\* the model is not asked more often than there are kept non-trivial claims.
C24_CapTruncates ==
    /\ pc \notin {"idle", "received"} =>
          /\ Len(claims) = Kept
          /\ \A i \in 1..Kept : claims[i] = Extracted[i]
          /\ Len(claim_results) <= Kept
          /\ predict_calls <= NonTrivialUpTo(Kept)
    /\ pc \in {"constructed", "returned"} =>
          /\ result.total_claims = Kept
          /\ result.total_claims <= config.max_claims_per_response
          /\ Len(result.claim_results) = Kept
          /\ \A i \in 1..Kept :
                result.claim_results[i].claim_text = Extracted[i].text
          /\ result.supported_count + result.contradicted_count
                + result.unsupported_count + result.trivial_count = Kept
          /\ result.faithfulness_score = FaithScore(result.claim_results)
          /\ result.is_safe =
                SafetyDecision(result.claim_results,
                               result.faithfulness_score,
                               config.faithfulness_threshold)

\* two claims that the model could check, a cap of one
C24_Witness ==
    /\ Returned
    /\ config.max_claims_per_response = 1
    /\ Len(Extracted) = 2
    /\ NonTrivialUpTo(2) = 2
    /\ predict_calls = 1
    /\ result.total_claims = 1
    /\ result.supported_count = 1
    /\ result.is_safe

\* C23: a trivial claim gets verdict TRIVIAL with confidence 1 and neither
\* a model load nor a prediction is made for it: the predictions made are at
\* most the non-trivial claims handled so far, and while only trivial
\* claims were handled the model was neither loaded nor asked.
C23_TrivialSkipsModel ==
    LET done == Len(claim_results)
    IN pc \in {"extracted", "verified"} =>
          /\ \A i \in 1..done :
                claims[i].is_trivial =>
                   /\ claim_results[i].verdict = TRIVIAL
                   /\ claim_results[i].confidence = Rat(1, 1)
                   /\ claim_results[i].claim_text = claims[i].text
          /\ predict_calls
                <= Cardinality({i \in 1..done : ~claims[i].is_trivial})
          /\ (\A i \in 1..done : claims[i].is_trivial) =>
                /\ predict_calls = 0
                /\ env = "unknown"
                /\ ~model_loaded

\* a trivial claim after one the model was asked about
C23_Witness ==
    /\ pc = "verified"
    /\ Len(claims) = 2
    /\ ~claims[1].is_trivial
    /\ claims[2].is_trivial
    /\ claim_results[2].verdict = TRIVIAL
    /\ predict_calls = 1

(***************************************************************************)
(* The passages paired with a claim (SpecPrune).                           *)
(***************************************************************************)
OverlapOf(i) == Overlap(ClaimWords(p_claim), p_chunks[i])
\* passage i comes before passage j: more overlap, or as much and earlier
Before(i, j) ==
    OverlapOf(i) > OverlapOf(j) \/ (OverlapOf(i) = OverlapOf(j) /\ i < j)
Supplied == 1..Len(p_chunks)
TopOfSupplied ==
    {i \in Supplied :
        Cardinality({j \in Supplied : Before(j, i)}) < PruneKeep}
Paired == {p_check[k] : k \in 1..Len(p_check)}

\* C25: with more than 3 passages the passages paired with the claim are
\* the 3 of highest overlap among all the passages supplied, an earlier
\* passage before a later one of the same overlap; with 3 or fewer all are
\* paired; never more than 3 pairs.
C25_TopThreeOfSupplied ==
    p_pc = "paired" =>
        /\ Len(p_check) <= PruneKeep
        /\ Cardinality(Paired) = Len(p_check)
        /\ Paired = IF Len(p_chunks) > PruneKeep THEN TopOfSupplied
                    ELSE Supplied

\* what holds: the 3 of highest overlap among the first top_k passages
C25_TopThreeOfFirstFive ==
    p_pc = "paired" =>
        /\ Len(p_check) <= PruneKeep
        /\ Len(p_chunks) <= TopK => Paired = TopOfSupplied
        /\ Paired \subseteq 1..TopK

(***************************************************************************)
(* Properties of the consensus (SpecDual).                                 *)
(***************************************************************************)
OnlineFactual ==
    SelectSeq(extract_claims(online_response), LAMBDA c : ~c.is_trivial)
NumOnline == Len(OnlineFactual)
\* the texts of the online claims whose verdict is in vs, in order
Landed(vs) ==
    LET idx == SelectSeq([i \in 1..NumOnline |-> i],
                         LAMBDA i : d_verdicts[i] \in vs)
    IN [k \in 1..Len(idx) |-> OnlineFactual[idx[k]].text]
HeaderLen == Len(ConsensusHeader(comparison))
UsesOnline ==
    /\ SubSeq(consensus, HeaderLen + 1, HeaderLen + Len(online_response))
          = online_response
    /\ \A k \in 1..Len(consensus) : consensus[k] # LowConsensusNote
UsesOffline ==
    /\ Len(consensus) > HeaderLen
    /\ consensus[HeaderLen + 1] = LowConsensusNote
    /\ SubSeq(consensus, HeaderLen + 2, HeaderLen + 1 + Len(offline_response))
          = offline_response

\* C21: agreement_score is the number of non-trivial online claims verified
\* SUPPORTED against the offline claim texts over the number of non-trivial
\* online claims, 1 when there is none; each such claim is in exactly one
\* of agreed_claims (SUPPORTED), disagreed_claims (CONTRADICTED) and
\* online_only (UNSUPPORTED, or no offline claim to compare with); the
\* consensus uses the online answer iff the score reaches the threshold,
\* the offline answer otherwise.
C21_AgreementAndConsensus ==
    /\ d_pc \in {"compared", "built"} =>
          /\ Len(d_verdicts) = NumOnline
          /\ IF NumOnline = 0
             THEN comparison.agreement_score = Rat(1, 1)
             ELSE RatEQ(comparison.agreement_score,
                        Rat(Len(Landed({SUPPORTED})), NumOnline))
          /\ comparison.agreed_claims = Landed({SUPPORTED})
          /\ comparison.disagreed_claims = Landed({CONTRADICTED})
          /\ comparison.online_only = Landed({UNSUPPORTED, "none"})
          /\ Len(comparison.agreed_claims) + Len(comparison.disagreed_claims)
                + Len(comparison.online_only) = NumOnline
          /\ \A i \in 1..Len(d_verdicts) :
                d_verdicts[i] = "none" <=> offline_texts = <<>>
    /\ d_pc = "built" =>
          /\ SubSeq(consensus, 1, HeaderLen) = ConsensusHeader(comparison)
          /\ IF RatGE(comparison.agreement_score, Pct(d_threshold))
             THEN UsesOnline ELSE UsesOffline

\* two online claims, one agreed and one contradicted by the offline
\* answer: the score is 1/2 and the online answer is used at threshold 50
C21_Witness ==
    /\ d_pc = "built"
    /\ d_threshold = 50
    /\ NumOnline = 2
    /\ d_verdicts = <<SUPPORTED, CONTRADICTED>>
    /\ RatEQ(comparison.agreement_score, Rat(1, 2))
    /\ UsesOnline

\* no offline claim: the online claims are online-only, none disagreed,
\* and the offline answer is used
C21_WitnessOffline ==
    /\ d_pc = "built"
    /\ NumOnline = 2
    /\ offline_texts = <<>>
    /\ Len(comparison.online_only) = 2
    /\ comparison.disagreed_claims = <<>>
    /\ UsesOffline

====
